---- MODULE Spec2Model ----
(***************************************************************************)
(* Device authentication and token lifecycle of the Proxmox MCP server.    *)
(*                                                                         *)
(* The three JSON documents of DeviceAuthManager (pending_requests.json,   *)
(* approved_devices.json, revoked_tokens.json) are the shared state.  Each *)
(* request is an asyncio task; a task runs without interruption between    *)
(* two awaits of aiofiles, so every action below is the code between two   *)
(* such awaits.  _save_json_file opens the file in mode 'w', which empties *)
(* it, and writes the new content afterwards: a save is two steps.         *)
(*                                                                         *)
(* Spec     two concurrent requests on a storage that never fails          *)
(* SpecIO   one request at a time on a storage whose reads, opens and      *)
(*          writes can fail                                                *)
(* SpecRate the rate limiter of SecurityMiddleware (5 requests per 900 s)  *)
(* SpecFlood registration requests only, beyond the limit of 5 per 15 min  *)
(* SpecAdmin one request at a time with every expiry_days the              *)
(*          administrative surface passes on, and the listings             *)
(* SpecSurface the HTTP middleware of both applications in front of the    *)
(*          engine, one request at a time                                  *)
(* SpecOrigin the administrative surface called with any peer address and  *)
(*          any X-Forwarded-For and X-Real-IP headers                      *)
(* SpecPolicy an operation wrapped by require_device_auth, with and        *)
(*          without required permissions                                   *)
(* SpecStorage the first requests while _initialize_storage, the task the  *)
(*          constructor starts, creates the three files                    *)
(***************************************************************************)
EXTENDS Integers, FiniteSets, Sequences, TLC

\* ---------------------------------------------------------------- bounds
MaxDevices == 2
MaxTokens == 2
MaxTime == 2
MaxUses == 2
MaxCalls == 5
MaxFaults == 2
MaxRateCalls == 8
MaxRateTicks == 3
MaxFloodCalls == 7
MaxFloodDevices == 6
MaxAdminCalls == 5
MaxRequests == 6
MaxOriginRequests == 3
MaxOriginCalls == 4
MaxPolicyRequests == 3
MaxPolicyCalls == 5
MaxInitCalls == 4

\* ------------------------------------------------------ program constants
default_token_expiry_days == 30
max_token_expiry_days == 365
rate_max_requests == 5
rate_window_minutes == 15
SecondsPerDay == 86400
register_max_requests == 5
register_window_seconds == 900
admin_max_requests == 120
admin_window_seconds == 60

\* ------------------------------------------------------------ value sets
Tasks == {"t1", "t2"}
OneTask == {"t1"}
DeviceIds == 1..MaxDevices
NoDevice == 0      \* no device_id (Python None)
NoToken == 0       \* no token (Python None); also a secret that was never issued
NoTime == -1       \* no timestamp (Python None)
NoInfo == [device_id |-> NoDevice]
NoRecord == [device_id |-> NoDevice]
NoRateReturn == [key |-> "", ok |-> FALSE]
NoReturn == [op |-> "none", ok |-> FALSE, msg |-> "", device_id |-> NoDevice,
             token |-> NoToken, info |-> NoInfo]
IPs == {"10.0.0.5"}
DeviceNames == {"laptop"}
RateKeys == {"ip:10.0.0.5", "ip:10.0.0.6"}
\* seconds that pass between two calls: an instant, just under a window
RateSteps == {1, 899}
\* expiry_days as the caller gives it (given = FALSE: the argument is None)
ExpiryInputs == {[given |-> TRUE, days |-> 1]}
\* No HTTP request is being served; n counts the requests received.
NoRequest == [app |-> "none", path |-> <<>>, url_path |-> <<>>, peer |-> "",
              ip |-> "", bearer |-> FALSE, token |-> NoToken, endpoint |-> "",
              device_id |-> NoDevice, required |-> <<>>, stage |-> "done",
              trail |-> <<>>, detail |-> "", n |-> 0]
NoExpiry == [given |-> FALSE, days |-> 0]

PENDING == "pending"
APPROVED == "approved"
REVOKED == "revoked"
EXPIRED == "expired"

MsgNotFound == "Device request not found"
MsgApproved == "Device approved successfully"
MsgRegistered == "Device registration requested. Waiting for admin approval."
MsgRateLimit == "Rate limit exceeded. Please try again later."
MsgDeviceNotFound == "Device not found"
MsgRevokedOk == "Device access revoked successfully"
MsgInvalid == "Invalid token"
MsgRevoked == "Device access has been revoked"
MsgExpired == "Token has expired"
MsgValid == "Token valid"
MsgRejected == "Device request rejected"
MsgCleanup == "cleanup done"
MsgRegistrationFailed == "Registration failed"
MsgApprovalFailed == "Approval failed"
MsgRevocationFailed == "Revocation failed"
MsgValidationFailed == "Validation failed"
MsgRejectFailed == "Failed to reject device request"
ReasonDefault == "Manual revocation"

VARIABLES
    clock,               \* datetime.now() / time.time(), in days
    pending_file,        \* content of pending_requests.json, as _load_json_file returns it
    approved_file,       \* content of approved_devices.json
    revoked_file,        \* content of revoked_tokens.json
    rate_limit_storage,  \* ip -> sequence of accepted request times
    next_device,         \* the next uuid4 of _generate_device_id
    next_token,          \* the next secret of _generate_token
    limits,              \* what the environment does at most: calls, device_ids, storage faults
    faults,              \* number of storage faults (failed reads, opens, writes) so far
    calls,               \* number of requests accepted so far
    frame,               \* per task: position and locals of the running coroutine
    ret,                 \* the value returned by the step just taken (NoReturn otherwise)
    issued,              \* history: {[device_id, token]} returned by approve_device
    revoke_ok,           \* history: device_ids for which revoke_device returned success
    reject_ok,           \* history: device_ids whose rejection returned success
    valid_count,         \* history: token -> number of successful validate_token returns
    valid_last,          \* history: token -> timestamp of the latest successful validation
    last_status,         \* history: token -> status of its record as last stored
    rate_limits,         \* SecurityMiddleware.rate_limits: key -> accepted request times
    rate_time,           \* time.time() as the middleware reads it, in seconds
    rate_ticks,          \* number of times rate_time has advanced
    rate_ret,            \* the key and result of the _check_rate_limit call just made
    accepted,            \* history: key -> times of all calls that returned true
    rejected,            \* history: key -> number of calls that returned false
    request              \* the HTTP request being served: where it stands, what ran

vars == <<clock, pending_file, approved_file, revoked_file, rate_limit_storage,
          next_device, next_token, limits, faults, calls, frame, ret, issued, revoke_ok, reject_ok,
          valid_count, valid_last, last_status, rate_limits, rate_time, rate_ticks,
          rate_ret, accepted, rejected, request>>

files == <<pending_file, approved_file, revoked_file>>
middleware == <<rate_limits, rate_time, rate_ticks, rate_ret, accepted, rejected,
                request>>
hist == <<issued, revoke_ok, reject_ok, valid_count, valid_last, last_status>>

\* ------------------------------------------------------------- helpers
EmptyDoc == [d \in {} |-> NoRecord]

\* A document whose file does not exist (file_path.exists() is false).
NoFile == [d \in {NoDevice} |-> NoRecord]

Put(doc, d, rec) == [x \in DOMAIN doc \cup {d} |-> IF x = d THEN rec ELSE doc[x]]

Del(doc, d) == [x \in DOMAIN doc \ {d} |-> doc[x]]

\* The token kept as it is, in place of its digest.
plain_token(token) == <<"plain", token>>

\* hashlib.sha256(token).hexdigest(): one-way, collision-free on the tokens used
hash_token(token) == <<"sha256", token>>

\* A token counted as expired already at the instant expires_at.
is_expired_at_instant(expires_at, now) == now >= expires_at

\* datetime.now() > datetime.fromisoformat(expires_at)
is_expired(expires_at, now) == now > expires_at

IdleFrame ==
    [pc |-> "idle", device_id |-> NoDevice, token |-> NoToken, outcome |-> "",
     device_token |-> NoRecord, replaced |-> EmptyDoc, expiry_arg |-> NoExpiry,
     pending_requests |-> EmptyDoc, approved_devices |-> EmptyDoc,
     revoked_tokens |-> EmptyDoc,
     before |-> [approved |-> EmptyDoc, revoked |-> EmptyDoc]]

\* The device_ids a caller can name: those generated so far.
KnownIds == 1..(next_device - 1)

Idle(t) == frame[t].pc = "idle"

\* A request is picked up by a free task.  The tasks are interchangeable, so
\* when both are free the first one takes the request.
Free(t) ==
    /\ Idle(t)
    /\ t = "t2" => ~Idle("t1")
    /\ calls < limits.calls
    /\ calls' = calls + 1

Return(t, r) ==
    /\ frame' = [frame EXCEPT ![t] = IdleFrame]
    /\ ret' = r
    /\ UNCHANGED <<limits, middleware>>

Goto(t, f) ==
    /\ frame' = [frame EXCEPT ![t] = f]
    /\ ret' = NoReturn
    /\ UNCHANGED <<limits, middleware>>

\* DeviceAuthManager.__init__ on an empty data directory.
Constructed ==
    /\ clock = 0
    /\ pending_file = EmptyDoc
    /\ approved_file = EmptyDoc
    /\ revoked_file = EmptyDoc
    /\ rate_limit_storage = [ip \in IPs |-> <<>>]
    /\ next_device = 1
    /\ next_token = 1
    /\ calls = 0
    /\ frame = [t \in Tasks |-> IdleFrame]
    /\ ret = NoReturn
    /\ issued = {}
    /\ revoke_ok = {}
    /\ reject_ok = {}
    /\ valid_count = [k \in 1..MaxTokens |-> 0]
    /\ valid_last = [k \in 1..MaxTokens |-> NoTime]
    /\ last_status = [k \in 1..MaxTokens |-> "none"]
    /\ faults = 0
    /\ rate_limits = [key \in RateKeys |-> <<>>]
    /\ rate_time = 0
    /\ rate_ticks = 0
    /\ rate_ret = NoRateReturn
    /\ accepted = [key \in RateKeys |-> <<>>]
    /\ rejected = [key \in RateKeys |-> 0]
    /\ request = NoRequest

\* The server on a storage that never fails.
Init ==
    /\ Constructed
    /\ limits = [calls |-> MaxCalls, devices |-> MaxDevices, faults |-> 0,
                 expiry |-> ExpiryInputs]

\* The passage of time.
Tick ==
    /\ clock < MaxTime
    /\ UNCHANGED <<calls, limits, faults, middleware>>
    /\ clock' = clock + 1
    /\ ret' = NoReturn
    /\ UNCHANGED <<files, rate_limit_storage, next_device, next_token, frame, hist>>

\* ------------------------------------------------- _check_rate_limit
\* Entries not older than the window are kept; the call is accepted and
\* recorded when fewer than max_requests remain.
RateKept(entries, now) ==
    SelectSeq(entries, LAMBDA req_time :
        req_time * SecondsPerDay > now * SecondsPerDay - rate_window_minutes * 60)

\* A limiter that lets one more request through.
check_rate_limit_lenient(storage, ip, now) ==
    LET kept == RateKept(storage[ip], now) IN
    IF Len(kept) > rate_max_requests
    THEN [ok |-> FALSE, storage |-> [storage EXCEPT ![ip] = kept]]
    ELSE [ok |-> TRUE, storage |-> [storage EXCEPT ![ip] = Append(kept, now)]]

check_rate_limit(storage, ip, now) ==
    LET kept == RateKept(storage[ip], now) IN
    IF Len(kept) >= rate_max_requests
    THEN [ok |-> FALSE, storage |-> [storage EXCEPT ![ip] = kept]]
    ELSE [ok |-> TRUE, storage |-> [storage EXCEPT ![ip] = Append(kept, now)]]

\* ------------------------------------------------------ the documents
\* _load_json_file: the mapping in the file (an emptied file loads as {});
\* a read that fails is logged and {} is returned in its place.
load_json_file(file, failed) ==
    IF failed \/ file = NoFile THEN EmptyDoc ELSE file

\* Whether the read of this step fails: only while the storage still faults.
ReadFault(failed) ==
    /\ failed => faults < limits.faults
    /\ faults' = IF failed THEN faults + 1 ELSE faults

\* asdict(DeviceRequest(...))
DeviceRequest(id, name, ip) ==
    [device_id |-> id, device_name |-> name, ip_address |-> ip,
     status |-> PENDING]

\* DeviceToken.__post_init__: the permissions given to every token
DefaultPermissions ==
    <<"execute_command", "list_vms", "vm_status", "vm_action", "node_status",
      "proxmox_api">>

\* asdict(DeviceToken(...)): usage_count 0, last_used_at None, status approved
DeviceToken(id, device_request, token_hash, created, expires) ==
    [device_id |-> id, device_name |-> device_request.device_name,
     token_hash |-> token_hash, ip_address |-> device_request.ip_address,
     created_at |-> created, expires_at |-> expires,
     last_used_at |-> NoTime, usage_count |-> 0, status |-> APPROVED,
     permissions |-> DefaultPermissions]

\* The status each token's record has in a document just written.
StatusAfterWrite(doc, before) ==
    [k \in 1..MaxTokens |->
        IF \E d \in DOMAIN doc : doc[d].token_hash = hash_token(k)
        THEN LET d == CHOOSE x \in DOMAIN doc : doc[x].token_hash = hash_token(k)
             IN doc[d].status
        ELSE before[k]]

\* ------------------------------------- request_device_registration
request_device_registration(t) ==
    /\ Free(t)
    /\ \E ip \in IPs, name \in DeviceNames, failed \in BOOLEAN :
        LET lim == check_rate_limit(rate_limit_storage, ip, clock)
            device_id == next_device
            device_request == DeviceRequest(device_id, name, ip)
            pending_requests == load_json_file(pending_file, failed)
        IN  /\ rate_limit_storage' = lim.storage
            /\ IF ~lim.ok
               THEN /\ ~failed
                    /\ UNCHANGED faults
                    /\ Return(t, [op |-> "register", ok |-> FALSE, msg |-> MsgRateLimit,
                                  device_id |-> NoDevice, token |-> NoToken, info |-> NoInfo])
                    /\ UNCHANGED next_device
               ELSE /\ next_device <= limits.devices
                    /\ ReadFault(failed)
                    /\ next_device' = next_device + 1
                    /\ Goto(t, [IdleFrame EXCEPT !.pc = "reg_open",
                                  !.device_id = device_id,
                                  !.pending_requests =
                                      Put(pending_requests, device_id,
                                          device_request)])
    /\ UNCHANGED <<clock, files, next_token, hist>>

registration_save_open(t) ==
    /\ frame[t].pc = "reg_open"
    /\ UNCHANGED <<calls, faults>>
    /\ pending_file' = EmptyDoc
    /\ Goto(t, [frame[t] EXCEPT !.pc = "reg_write", !.replaced = pending_file])
    /\ UNCHANGED <<clock, approved_file, revoked_file, rate_limit_storage,
                   next_device, next_token, hist>>
registration_save_write(t) ==
    /\ frame[t].pc = "reg_write"
    /\ UNCHANGED <<calls, faults>>
    /\ pending_file' = frame[t].pending_requests
    /\ Return(t, [op |-> "register", ok |-> TRUE, msg |-> MsgRegistered,
                  device_id |-> frame[t].device_id, token |-> NoToken, info |-> NoInfo])
    /\ UNCHANGED <<clock, approved_file, revoked_file, rate_limit_storage,
                   next_device, next_token, hist>>

\* ------------------------------------------------------ approve_device
\* The lifetime taken as given, without the upper limit.
UnclampedExpiry(expiry_days) ==
    IF ~expiry_days.given THEN default_token_expiry_days ELSE expiry_days.days

ClampExpiry(expiry_days) ==
    LET e == IF ~expiry_days.given THEN default_token_expiry_days
             ELSE expiry_days.days
    IN  IF e > max_token_expiry_days THEN max_token_expiry_days ELSE e

approve_device(t) ==
    /\ Free(t)
    /\ \E device_id \in KnownIds, expiry_in \in limits.expiry, failed \in BOOLEAN :
        LET expiry_days == ClampExpiry(expiry_in)
            pending_requests == load_json_file(pending_file, failed)
        IN  /\ ReadFault(failed)
            /\ IF device_id \notin DOMAIN pending_requests
               THEN /\ Return(t, [op |-> "approve", ok |-> FALSE, msg |-> MsgNotFound,
                                  device_id |-> device_id, token |-> NoToken,
                                  info |-> NoInfo])
                    /\ UNCHANGED next_token
               ELSE /\ next_token <= MaxTokens
                    /\ next_token' = next_token + 1
                    /\ Goto(t, [IdleFrame EXCEPT !.pc = "app_load",
                                  !.device_id = device_id,
                                  !.token = next_token,
                                  !.expiry_arg = expiry_in,
                                  !.pending_requests = pending_requests,
                                  !.device_token = DeviceToken(device_id,
                                      pending_requests[device_id],
                                      hash_token(next_token), clock,
                                      clock + expiry_days)])
    /\ UNCHANGED <<clock, files, rate_limit_storage, next_device, hist>>

approve_load_approved(t) ==
    /\ frame[t].pc = "app_load"
    /\ UNCHANGED calls
    /\ \E failed \in BOOLEAN :
        /\ ReadFault(failed)
        /\ Goto(t, [frame[t] EXCEPT !.pc = "app_open_a",
                      !.approved_devices =
                          Put(load_json_file(approved_file, failed),
                              frame[t].device_id, frame[t].device_token)])
    /\ UNCHANGED <<clock, files, rate_limit_storage, next_device, next_token, hist>>
approve_open_approved(t) ==
    /\ frame[t].pc = "app_open_a"
    /\ UNCHANGED <<calls, faults>>
    /\ approved_file' = EmptyDoc
    /\ Goto(t, [frame[t] EXCEPT !.pc = "app_write_a", !.replaced = approved_file])
    /\ UNCHANGED <<clock, pending_file, revoked_file, rate_limit_storage,
                   next_device, next_token, hist>>
approve_write_approved(t) ==
    /\ frame[t].pc = "app_write_a"
    /\ UNCHANGED <<calls, faults>>
    /\ approved_file' = frame[t].approved_devices
    /\ last_status' = StatusAfterWrite(frame[t].approved_devices, last_status)
    /\ Goto(t, [frame[t] EXCEPT !.pc = "app_open_p",
                  !.replaced = EmptyDoc,
                  !.pending_requests = Del(frame[t].pending_requests,
                                           frame[t].device_id)])
    /\ UNCHANGED <<clock, pending_file, revoked_file, rate_limit_storage,
                   next_device, next_token, issued, revoke_ok, reject_ok, valid_count,
                   valid_last>>
approve_open_pending(t) ==
    /\ frame[t].pc = "app_open_p"
    /\ UNCHANGED <<calls, faults>>
    /\ pending_file' = EmptyDoc
    /\ Goto(t, [frame[t] EXCEPT !.pc = "app_write_p", !.replaced = pending_file])
    /\ UNCHANGED <<clock, approved_file, revoked_file, rate_limit_storage,
                   next_device, next_token, hist>>
approve_write_pending(t) ==
    /\ frame[t].pc = "app_write_p"
    /\ UNCHANGED <<calls, faults>>
    /\ pending_file' = frame[t].pending_requests
    /\ issued' = issued \cup {[device_id |-> frame[t].device_id,
                               token |-> frame[t].token]}
    /\ Return(t, [op |-> "approve", ok |-> TRUE, msg |-> MsgApproved,
                  device_id |-> frame[t].device_id, token |-> frame[t].token,
                  info |-> NoInfo])
    /\ UNCHANGED <<clock, approved_file, revoked_file, rate_limit_storage,
                   next_device, next_token, revoke_ok, reject_ok, valid_count,
                   valid_last, last_status>>

\* ----------------------------------------- reject_device_request (main.py)
reject_device_request(t) ==
    /\ Free(t)
    /\ \E device_id \in KnownIds, failed \in BOOLEAN :
        LET pending_requests == load_json_file(pending_file, failed)
        IN  /\ ReadFault(failed)
            /\ IF device_id \notin DOMAIN pending_requests
               THEN Return(t, [op |-> "reject", ok |-> FALSE, msg |-> MsgNotFound,
                               device_id |-> device_id, token |-> NoToken,
                               info |-> NoInfo])
               ELSE Goto(t, [IdleFrame EXCEPT !.pc = "rej_open",
                               !.device_id = device_id,
                               !.pending_requests = Del(pending_requests, device_id)])
    /\ UNCHANGED <<clock, files, rate_limit_storage, next_device, next_token, hist>>

reject_save_open(t) ==
    /\ frame[t].pc = "rej_open"
    /\ UNCHANGED <<calls, faults>>
    /\ pending_file' = EmptyDoc
    /\ Goto(t, [frame[t] EXCEPT !.pc = "rej_write", !.replaced = pending_file])
    /\ UNCHANGED <<clock, approved_file, revoked_file, rate_limit_storage,
                   next_device, next_token, hist>>
reject_save_write(t) ==
    /\ frame[t].pc = "rej_write"
    /\ UNCHANGED <<calls, faults>>
    /\ pending_file' = frame[t].pending_requests
    /\ Return(t, [op |-> "reject", ok |-> TRUE, msg |-> MsgRejected,
                  device_id |-> frame[t].device_id, token |-> NoToken, info |-> NoInfo])
    /\ reject_ok' = reject_ok \cup {frame[t].device_id}
    /\ UNCHANGED <<clock, approved_file, revoked_file, rate_limit_storage,
                   next_device, next_token, issued, revoke_ok, valid_count,
                   valid_last, last_status>>

\* ------------------------------------------------------- revoke_device
RevocationRecord(device_token, now, reason) ==
    [device_name |-> device_token.device_name,
     token_hash |-> device_token.token_hash,
     revoked_at |-> now, reason |-> reason]

revoke_device(t) ==
    /\ Free(t)
    /\ \E device_id \in KnownIds, failed \in BOOLEAN :
        LET approved_devices == load_json_file(approved_file, failed)
        IN  /\ ReadFault(failed)
            /\ IF device_id \notin DOMAIN approved_devices
               THEN Return(t, [op |-> "revoke", ok |-> FALSE, msg |-> MsgDeviceNotFound,
                               device_id |-> device_id, token |-> NoToken,
                               info |-> NoInfo])
               ELSE Goto(t, [IdleFrame EXCEPT !.pc = "rev_load",
                               !.device_id = device_id,
                               !.before = [approved |-> approved_file,
                                           revoked |-> revoked_file],
                               !.approved_devices =
                                   [approved_devices EXCEPT ![device_id].status = REVOKED]])
    /\ UNCHANGED <<clock, files, rate_limit_storage, next_device, next_token, hist>>

revoke_load_revoked(t) ==
    /\ frame[t].pc = "rev_load"
    /\ UNCHANGED calls
    /\ \E failed \in BOOLEAN :
        LET device_id == frame[t].device_id
            device_token == frame[t].approved_devices[device_id]
        IN  /\ ReadFault(failed)
            /\ Goto(t, [frame[t] EXCEPT !.pc = "rev_open_a",
                          !.revoked_tokens =
                              Put(load_json_file(revoked_file, failed), device_id,
                                  RevocationRecord(device_token, clock, ReasonDefault))])
    /\ UNCHANGED <<clock, files, rate_limit_storage, next_device, next_token, hist>>
revoke_open_approved(t) ==
    /\ frame[t].pc = "rev_open_a"
    /\ UNCHANGED <<calls, faults>>
    /\ approved_file' = EmptyDoc
    /\ Goto(t, [frame[t] EXCEPT !.pc = "rev_write_a", !.replaced = approved_file])
    /\ UNCHANGED <<clock, pending_file, revoked_file, rate_limit_storage,
                   next_device, next_token, hist>>
revoke_write_approved(t) ==
    /\ frame[t].pc = "rev_write_a"
    /\ UNCHANGED <<calls, faults>>
    /\ approved_file' = frame[t].approved_devices
    /\ last_status' = StatusAfterWrite(frame[t].approved_devices, last_status)
    /\ Goto(t, [frame[t] EXCEPT !.pc = "rev_open_r", !.replaced = EmptyDoc])
    /\ UNCHANGED <<clock, pending_file, revoked_file, rate_limit_storage,
                   next_device, next_token, issued, revoke_ok, reject_ok, valid_count,
                   valid_last>>
revoke_open_revoked(t) ==
    /\ frame[t].pc = "rev_open_r"
    /\ UNCHANGED <<calls, faults>>
    /\ revoked_file' = EmptyDoc
    /\ Goto(t, [frame[t] EXCEPT !.pc = "rev_write_r", !.replaced = revoked_file])
    /\ UNCHANGED <<clock, pending_file, approved_file, rate_limit_storage,
                   next_device, next_token, hist>>
revoke_write_revoked(t) ==
    /\ frame[t].pc = "rev_write_r"
    /\ UNCHANGED <<calls, faults>>
    /\ revoked_file' = frame[t].revoked_tokens
    /\ revoke_ok' = revoke_ok \cup {frame[t].device_id}
    /\ Return(t, [op |-> "revoke", ok |-> TRUE, msg |-> MsgRevokedOk,
                  device_id |-> frame[t].device_id, token |-> NoToken, info |-> NoInfo])
    /\ UNCHANGED <<clock, pending_file, approved_file, rate_limit_storage,
                   next_device, next_token, issued, reject_ok, valid_count, valid_last,
                   last_status>>

\* ------------------------------------------------------ validate_token
\* The device whose record carries the hash (the first match of the scan).
FindByHash(approved_devices, token_hash) ==
    LET matches == {d \in DOMAIN approved_devices :
                        approved_devices[d].token_hash = token_hash}
    IN  IF matches = {} THEN NoDevice
        ELSE CHOOSE d \in matches : \A e \in matches : d <= e

\* safe_device_info: the record without its token_hash and status
SafeDeviceInfo(device_id, device_info) ==
    [device_id |-> device_id, device_name |-> device_info.device_name,
     ip_address |-> device_info.ip_address, created_at |-> device_info.created_at,
     expires_at |-> device_info.expires_at,
     last_used_at |-> device_info.last_used_at,
     usage_count |-> device_info.usage_count,
     permissions |-> device_info.permissions]

\* An expired token reported without its status being changed.
mark_expired_skipped(approved_devices, device_id) == approved_devices

\* device_info['status'] = 'expired'; approved_devices[device_id] = device_info
mark_expired(approved_devices, device_id) ==
    [approved_devices EXCEPT ![device_id].status = EXPIRED]

\* last_used_at = now; usage_count = usage_count + 1
record_use(approved_devices, device_id, now) ==
    [approved_devices EXCEPT ![device_id].last_used_at = now,
                             ![device_id].usage_count = @ + 1]

validate_token(t) ==
    /\ Free(t)
    /\ \E token \in {NoToken} \cup {x.token : x \in issued}, failed \in BOOLEAN :
        LET approved_devices == load_json_file(approved_file, failed)
            device_id == FindByHash(approved_devices, hash_token(token))
            device_info == approved_devices[device_id]
        IN  /\ ReadFault(failed)
            /\ IF device_id = NoDevice
               THEN Return(t, [op |-> "validate", ok |-> FALSE, msg |-> MsgInvalid,
                               device_id |-> NoDevice, token |-> token, info |-> NoInfo])
               ELSE IF device_info.status = REVOKED
               THEN Return(t, [op |-> "validate", ok |-> FALSE, msg |-> MsgRevoked,
                               device_id |-> NoDevice, token |-> token, info |-> NoInfo])
               ELSE IF is_expired(device_info.expires_at, clock)
               THEN Goto(t, [IdleFrame EXCEPT !.pc = "val_open",
                               !.device_id = device_id, !.token = token,
                               !.outcome = MsgExpired,
                               !.approved_devices =
                                   mark_expired(approved_devices, device_id)])
               ELSE /\ device_info.usage_count < MaxUses
                    /\ Goto(t, [IdleFrame EXCEPT !.pc = "val_open",
                               !.device_id = device_id, !.token = token,
                               !.outcome = MsgValid,
                               !.approved_devices =
                                   record_use(approved_devices, device_id, clock)])
    /\ UNCHANGED <<clock, files, rate_limit_storage, next_device, next_token, hist>>

validate_save_open(t) ==
    /\ frame[t].pc = "val_open"
    /\ UNCHANGED <<calls, faults>>
    /\ approved_file' = EmptyDoc
    /\ Goto(t, [frame[t] EXCEPT !.pc = "val_write", !.replaced = approved_file])
    /\ UNCHANGED <<clock, pending_file, revoked_file, rate_limit_storage,
                   next_device, next_token, hist>>
validate_save_write(t) ==
    /\ frame[t].pc = "val_write"
    /\ UNCHANGED <<calls, faults>>
    /\ approved_file' = frame[t].approved_devices
    /\ last_status' = StatusAfterWrite(frame[t].approved_devices, last_status)
    /\ LET token == frame[t].token
           device_info == frame[t].approved_devices[frame[t].device_id]
       IN  IF frame[t].outcome = MsgExpired
           THEN /\ Return(t, [op |-> "validate", ok |-> FALSE, msg |-> MsgExpired,
                              device_id |-> NoDevice, token |-> token,
                              info |-> NoInfo])
                /\ UNCHANGED <<valid_count, valid_last>>
           ELSE /\ Return(t, [op |-> "validate", ok |-> TRUE, msg |-> MsgValid,
                              device_id |-> frame[t].device_id, token |-> token,
                              info |-> SafeDeviceInfo(frame[t].device_id, device_info)])
                /\ valid_count' = [valid_count EXCEPT ![token] = @ + 1]
                /\ valid_last' = [valid_last EXCEPT ![token] =
                        IF device_info.last_used_at > @
                        THEN device_info.last_used_at ELSE @]
    /\ UNCHANGED <<clock, pending_file, revoked_file, rate_limit_storage,
                   next_device, next_token, issued, revoke_ok, reject_ok>>

\* ---------------------------------------------- cleanup_expired_tokens
MarkExpired(approved_devices, now) ==
    [d \in DOMAIN approved_devices |->
        IF is_expired(approved_devices[d].expires_at, now)
        THEN [approved_devices[d] EXCEPT !.status = EXPIRED]
        ELSE approved_devices[d]]

cleanup_expired_tokens(t) ==
    /\ Free(t)
    /\ \E failed \in BOOLEAN :
        LET approved_devices == load_json_file(approved_file, failed)
            expired_count == Cardinality({d \in DOMAIN approved_devices :
                                 is_expired(approved_devices[d].expires_at, clock)})
        IN  /\ ReadFault(failed)
            /\ IF expired_count > 0
               THEN Goto(t, [IdleFrame EXCEPT !.pc = "cln_open",
                               !.approved_devices = MarkExpired(approved_devices, clock)])
               ELSE Return(t, [op |-> "cleanup", ok |-> TRUE, msg |-> MsgCleanup,
                               device_id |-> NoDevice, token |-> NoToken,
                               info |-> NoInfo])
    /\ UNCHANGED <<clock, files, rate_limit_storage, next_device, next_token, hist>>

cleanup_save_open(t) ==
    /\ frame[t].pc = "cln_open"
    /\ UNCHANGED <<calls, faults>>
    /\ approved_file' = EmptyDoc
    /\ Goto(t, [frame[t] EXCEPT !.pc = "cln_write", !.replaced = approved_file])
    /\ UNCHANGED <<clock, pending_file, revoked_file, rate_limit_storage,
                   next_device, next_token, hist>>
cleanup_save_write(t) ==
    /\ frame[t].pc = "cln_write"
    /\ UNCHANGED <<calls, faults>>
    /\ approved_file' = frame[t].approved_devices
    /\ last_status' = StatusAfterWrite(frame[t].approved_devices, last_status)
    /\ Return(t, [op |-> "cleanup", ok |-> TRUE, msg |-> MsgCleanup,
                  device_id |-> NoDevice, token |-> NoToken, info |-> NoInfo])
    /\ UNCHANGED <<clock, pending_file, revoked_file, rate_limit_storage,
                   next_device, next_token, issued, revoke_ok, reject_ok, valid_count,
                   valid_last>>
Next ==
    \/ Tick
    \/ \E t \in Tasks :
        \/ request_device_registration(t)
        \/ registration_save_open(t)
        \/ registration_save_write(t)
        \/ approve_device(t)
        \/ approve_load_approved(t)
        \/ approve_open_approved(t)
        \/ approve_write_approved(t)
        \/ approve_open_pending(t)
        \/ approve_write_pending(t)
        \/ reject_device_request(t)
        \/ reject_save_open(t)
        \/ reject_save_write(t)
        \/ revoke_device(t)
        \/ revoke_load_revoked(t)
        \/ revoke_open_approved(t)
        \/ revoke_write_approved(t)
        \/ revoke_open_revoked(t)
        \/ revoke_write_revoked(t)
        \/ validate_token(t)
        \/ validate_save_open(t)
        \/ validate_save_write(t)
        \/ cleanup_expired_tokens(t)
        \/ cleanup_save_open(t)
        \/ cleanup_save_write(t)

Spec == Init /\ [][Next]_vars

\* =====================================================================
\* Storage failures
\* =====================================================================
\* The positions of a coroutine inside _save_json_file: before the open
\* (mode 'w') and between the open and the write.
OpenPcs == {"reg_open", "app_open_a", "app_open_p", "rej_open", "rev_open_a",
            "rev_open_r", "val_open", "cln_open"}
WritePcs == {"reg_write", "app_write_a", "app_write_p", "rej_write", "rev_write_a",
             "rev_write_r", "val_write", "cln_write"}

\* The operation a position belongs to.
OpOf(pc) ==
    CASE pc \in {"reg_open", "reg_write"} -> "register"
      [] pc \in {"app_load", "app_open_a", "app_write_a", "app_open_p",
                 "app_write_p"} -> "approve"
      [] pc \in {"rej_open", "rej_write"} -> "reject"
      [] pc \in {"rev_load", "rev_open_a", "rev_write_a", "rev_open_r",
                 "rev_write_r"} -> "revoke"
      [] pc \in {"val_open", "val_write"} -> "validate"
      [] pc \in {"cln_open", "cln_write"} -> "cleanup"
      [] OTHER -> "none"

\* What the operation's except clause returns when _save_json_file raises.
\* cleanup_expired_tokens logs the error and returns None as always.
StorageFailure(f) ==
    LET op == OpOf(f.pc) IN
    [op |-> op,
     ok |-> (op = "cleanup"),
     msg |-> CASE op = "register" -> MsgRegistrationFailed
               [] op = "approve" -> MsgApprovalFailed
               [] op = "reject" -> MsgRejectFailed
               [] op = "revoke" -> MsgRevocationFailed
               [] op = "validate" -> MsgValidationFailed
               [] OTHER -> MsgCleanup,
     device_id |-> IF op \in {"approve", "reject", "revoke"} THEN f.device_id
                   ELSE NoDevice,
     token |-> IF op = "validate" THEN f.token ELSE NoToken,
     info |-> NoInfo]

\* aiofiles.open(file_path, 'w') raises: the file is as it was.
save_open_fails(t) ==
    /\ frame[t].pc \in OpenPcs
    /\ faults < limits.faults
    /\ faults' = faults + 1
    /\ Return(t, StorageFailure(frame[t]))
    /\ UNCHANGED <<clock, files, rate_limit_storage, next_device, next_token, calls,
                   hist>>

\* f.write raises after the open has emptied the file: the file keeps
\* what had been written of it, which _load_json_file reads as {}.
save_write_fails(t) ==
    /\ frame[t].pc \in WritePcs
    /\ faults < limits.faults
    /\ faults' = faults + 1
    /\ Return(t, StorageFailure(frame[t]))
    /\ UNCHANGED <<clock, files, rate_limit_storage, next_device, next_token, calls,
                   hist>>

\* The server on a storage that fails up to MaxFaults times, one request at
\* a time.
InitIO ==
    /\ Constructed
    /\ limits = [calls |-> MaxCalls, devices |-> MaxDevices, faults |-> MaxFaults,
                 expiry |-> ExpiryInputs]

NextIO ==
    \/ Tick
    \/ \E t \in OneTask :
        \/ request_device_registration(t)
        \/ registration_save_open(t)
        \/ registration_save_write(t)
        \/ approve_device(t)
        \/ approve_load_approved(t)
        \/ approve_open_approved(t)
        \/ approve_write_approved(t)
        \/ approve_open_pending(t)
        \/ approve_write_pending(t)
        \/ reject_device_request(t)
        \/ reject_save_open(t)
        \/ reject_save_write(t)
        \/ revoke_device(t)
        \/ revoke_load_revoked(t)
        \/ revoke_open_approved(t)
        \/ revoke_write_approved(t)
        \/ revoke_open_revoked(t)
        \/ revoke_write_revoked(t)
        \/ validate_token(t)
        \/ validate_save_open(t)
        \/ validate_save_write(t)
        \/ cleanup_expired_tokens(t)
        \/ cleanup_save_open(t)
        \/ cleanup_save_write(t)
        \/ save_open_fails(t)
        \/ save_write_fails(t)

SpecIO == InitIO /\ [][NextIO]_vars


\* =====================================================================
\* The administrative surface
\* =====================================================================
\* expiry_days as the approve endpoint can pass it on: absent (None),
\* negative, zero, small, the maximum and beyond it.
ExpiryValues ==
    {NoExpiry} \cup
    {[given |-> TRUE, days |-> n] :
        n \in {-1, 0, 1, max_token_expiry_days, max_token_expiry_days + 1}}

\* The server with an administrator who passes any of these values.
InitAdmin ==
    /\ Constructed
    /\ limits = [calls |-> MaxAdminCalls, devices |-> MaxDevices, faults |-> 0,
                 expiry |-> ExpiryValues]

\* list(pending_requests.values()): the records as stored
get_pending_requests(t) ==
    /\ Free(t)
    /\ \E failed \in BOOLEAN :
        /\ ReadFault(failed)
        /\ Return(t, [op |-> "list_pending", ok |-> TRUE, msg |-> "",
                      device_id |-> NoDevice, token |-> NoToken,
                      info |-> load_json_file(pending_file, failed)])
    /\ UNCHANGED <<clock, files, rate_limit_storage, next_device, next_token, hist>>

\* A record passed on in full.
RawDevice(device_id, device_data) == device_data

\* safe_device: the record without its token_hash
SafeDevice(device_id, device_data) ==
    [device_id |-> device_id, device_name |-> device_data.device_name,
     ip_address |-> device_data.ip_address, created_at |-> device_data.created_at,
     expires_at |-> device_data.expires_at,
     last_used_at |-> device_data.last_used_at,
     usage_count |-> device_data.usage_count, status |-> device_data.status,
     permissions |-> device_data.permissions]

get_approved_devices(t) ==
    /\ Free(t)
    /\ \E failed \in BOOLEAN :
        LET approved_devices == load_json_file(approved_file, failed)
        IN  /\ ReadFault(failed)
            /\ Return(t, [op |-> "list_devices", ok |-> TRUE, msg |-> "",
                          device_id |-> NoDevice, token |-> NoToken,
                          info |-> [d \in DOMAIN approved_devices |->
                                       SafeDevice(d, approved_devices[d])]])
    /\ UNCHANGED <<clock, files, rate_limit_storage, next_device, next_token, hist>>

\* get_system_stats: three loads, then the counts
get_system_stats(t) ==
    /\ Free(t)
    /\ \E failed \in BOOLEAN :
        /\ ReadFault(failed)
        /\ Goto(t, [IdleFrame EXCEPT !.pc = "stat_load_a",
                      !.pending_requests = load_json_file(pending_file, failed)])
    /\ UNCHANGED <<clock, files, rate_limit_storage, next_device, next_token, hist>>
stats_load_approved(t) ==
    /\ frame[t].pc = "stat_load_a"
    /\ UNCHANGED calls
    /\ \E failed \in BOOLEAN :
        /\ ReadFault(failed)
        /\ Goto(t, [frame[t] EXCEPT !.pc = "stat_load_r",
                      !.approved_devices = load_json_file(approved_file, failed)])
    /\ UNCHANGED <<clock, files, rate_limit_storage, next_device, next_token, hist>>
stats_load_revoked(t) ==
    /\ frame[t].pc = "stat_load_r"
    /\ UNCHANGED calls
    /\ \E failed \in BOOLEAN :
        LET approved_devices == frame[t].approved_devices
            revoked_tokens == load_json_file(revoked_file, failed)
            expired == {d \in DOMAIN approved_devices :
                           \/ approved_devices[d].status = EXPIRED
                           \/ is_expired(approved_devices[d].expires_at, clock)}
            active == {d \in DOMAIN approved_devices \ expired :
                           approved_devices[d].status = APPROVED}
        IN  /\ ReadFault(failed)
            /\ Return(t, [op |-> "stats", ok |-> TRUE, msg |-> "",
                          device_id |-> NoDevice, token |-> NoToken,
                          info |-> [pending_requests |->
                                        Cardinality(DOMAIN frame[t].pending_requests),
                                    active_devices |-> Cardinality(active),
                                    expired_devices |-> Cardinality(expired),
                                    revoked_devices |->
                                        Cardinality(DOMAIN revoked_tokens),
                                    total_devices |->
                                        Cardinality(DOMAIN approved_devices)]])
    /\ UNCHANGED <<clock, files, rate_limit_storage, next_device, next_token, hist>>

\* One administrator request at a time, the listings included.
NextAdmin ==
    \/ Tick
    \/ \E t \in OneTask :
        \/ request_device_registration(t)
        \/ registration_save_open(t)
        \/ registration_save_write(t)
        \/ approve_device(t)
        \/ approve_load_approved(t)
        \/ approve_open_approved(t)
        \/ approve_write_approved(t)
        \/ approve_open_pending(t)
        \/ approve_write_pending(t)
        \/ reject_device_request(t)
        \/ reject_save_open(t)
        \/ reject_save_write(t)
        \/ revoke_device(t)
        \/ revoke_load_revoked(t)
        \/ revoke_open_approved(t)
        \/ revoke_write_approved(t)
        \/ revoke_open_revoked(t)
        \/ revoke_write_revoked(t)
        \/ validate_token(t)
        \/ validate_save_open(t)
        \/ validate_save_write(t)
        \/ cleanup_expired_tokens(t)
        \/ cleanup_save_open(t)
        \/ cleanup_save_write(t)
        \/ get_pending_requests(t)
        \/ get_approved_devices(t)
        \/ get_system_stats(t)
        \/ stats_load_approved(t)
        \/ stats_load_revoked(t)

SpecAdmin == InitAdmin /\ [][NextAdmin]_vars

\* =====================================================================
\* A burst of registrations
\* =====================================================================
\* The server receiving registration requests only, more of them than the
\* limiter admits in one window.
InitFlood ==
    /\ Constructed
    /\ limits = [calls |-> MaxFloodCalls, devices |-> MaxFloodDevices, faults |-> 0,
                 expiry |-> ExpiryInputs]

NextFlood ==
    \/ Tick
    \/ \E t \in Tasks :
        \/ request_device_registration(t)
        \/ registration_save_open(t)
        \/ registration_save_write(t)

SpecFlood == InitFlood /\ [][NextFlood]_vars

\* =====================================================================
\* The rate limiter of SecurityMiddleware
\* =====================================================================
\* No entry is ever dropped from the key's list.
RateWindowUnpruned(entries, now, window_seconds) == entries

\* [req_time for req_time in self.rate_limits[key] if req_time > window_start]
RateWindow(entries, now, window_seconds) ==
    SelectSeq(entries, LAMBDA req_time : req_time > now - window_seconds)

\* A list that already holds max_requests entries taken as under the limit.
UnderLimitInclusive(kept, max_requests) == ~(Len(kept) > max_requests)

\* not (len(self.rate_limits[key]) >= max_requests)
UnderLimit(kept, max_requests) == ~(Len(kept) >= max_requests)

\* _check_rate_limit(key, max_requests, window_seconds) on the key's list:
\* the result and the list it leaves.
security_check_rate_limit(entries, now, max_requests, window_seconds) ==
    LET kept == RateWindow(entries, now, window_seconds) IN
    IF ~UnderLimit(kept, max_requests)
    THEN [ok |-> FALSE, entries |-> kept]
    ELSE [ok |-> TRUE, entries |-> Append(kept, now)]

RateCalls ==
    LET F[keys \in SUBSET RateKeys] ==
            IF keys = {} THEN 0
            ELSE LET key == CHOOSE k \in keys : TRUE
                 IN  Len(accepted[key]) + rejected[key] + F[keys \ {key}]
    IN  F[RateKeys]

\* A request to an endpoint decorated with rate_limit(max_requests=5,
\* window_seconds=900): _check_rate_limit has no await, so the whole call
\* is one step of the event loop.
rate_limit(key) ==
    /\ RateCalls < MaxRateCalls
    /\ LET r == security_check_rate_limit(rate_limits[key], rate_time,
                    register_max_requests, register_window_seconds)
       IN  /\ rate_limits' = [rate_limits EXCEPT ![key] = r.entries]
           /\ rate_ret' = [key |-> key, ok |-> r.ok]
           /\ accepted' = IF r.ok THEN [accepted EXCEPT ![key] = Append(@, rate_time)]
                          ELSE accepted
           /\ rejected' = IF r.ok THEN rejected
                          ELSE [rejected EXCEPT ![key] = @ + 1]
    /\ UNCHANGED <<rate_time, rate_ticks, request>>
    /\ UNCHANGED <<clock, files, rate_limit_storage, next_device, next_token, limits,
                   faults, calls, frame, ret, hist>>

\* Time passes between two requests.
RateTick ==
    /\ rate_ticks < MaxRateTicks
    /\ rate_ticks' = rate_ticks + 1
    /\ \E seconds \in RateSteps : rate_time' = rate_time + seconds
    /\ rate_ret' = NoRateReturn
    /\ UNCHANGED <<rate_limits, accepted, rejected, request>>
    /\ UNCHANGED <<clock, files, rate_limit_storage, next_device, next_token, limits,
                   faults, calls, frame, ret, hist>>

NextRate ==
    \/ RateTick
    \/ \E key \in RateKeys : rate_limit(key)

SpecRate == Init /\ [][NextRate]_vars

\* ------------------------------------------------ the two HTTP surfaces
\* Paths by segment: /register, /health and what lies under the /api mount.
RemotePaths == {<<"register">>, <<"health">>, <<"api", "mcp">>, <<"api", "other">>}
\* A caller of the administrative surface: the peer address of its
\* connection, its X-Forwarded-For and X-Real-IP headers (<<>>, "": absent)
\* and whether it sends a token.
Caller(peer, forwarded_for, real_ip, bearer) ==
    [peer |-> peer, forwarded_for |-> forwarded_for, real_ip |-> real_ip,
     bearer |-> bearer]

\* A caller of the local network and one from outside, without headers.
AdminCallers == {Caller("10.0.0.5", <<>>, "", FALSE),
                 Caller("203.0.113.9", <<>>, "", FALSE)}

\* _get_client_ip: the first X-Forwarded-For entry, else X-Real-IP, else
\* request.client.host
get_client_ip(caller) ==
    IF caller.forwarded_for # <<>> THEN caller.forwarded_for[1]
    ELSE IF caller.real_ip # "" THEN caller.real_ip
    ELSE caller.peer
AdminEndpoints == {"stats", "pending", "devices", "approve", "reject", "revoke"}

\* ipaddress.ip_address(ip_address); <<>> when it raises ValueError
Octets(ip) ==
    CASE ip = "10.0.0.5" -> <<10, 0, 0, 5>>
      [] ip = "172.31.255.254" -> <<172, 31, 255, 254>>
      [] ip = "172.32.0.1" -> <<172, 32, 0, 1>>
      [] ip = "203.0.113.9" -> <<203, 0, 113, 9>>
      [] ip = "127.0.0.1" -> <<127, 0, 0, 1>>
      [] OTHER -> <<>>

\* Every address beginning with 172 taken as local.
is_local_network_wide(ip) ==
    LET o == Octets(ip) IN
    /\ o # <<>>
    /\ o[1] \in {10, 127, 172} \/ (o[1] = 192 /\ o[2] = 168)

\* 10.0.0.0/8, 172.16.0.0/12, 192.168.0.0/16, 127.0.0.0/8; False on a
\* string that does not parse
is_local_network(ip) ==
    LET o == Octets(ip) IN
    /\ o # <<>>
    /\ \/ o[1] = 10
       \/ o[1] = 172 /\ o[2] \in 16..31
       \/ o[1] = 192 /\ o[2] = 168
       \/ o[1] = 127

\* request.url.path inside the application mounted at /api: with or without
\* the mount prefix, as the framework builds it.
UrlPaths(path) == {path, Tail(path)}

\* request.url.path.startswith("/mcp"), by segment
startswith_mcp(url_path) == Len(url_path) >= 1 /\ url_path[1] = "mcp"

\* if key not in self.rate_limits: self.rate_limits[key] = []
RateEntries(key) == IF key \in DOMAIN rate_limits THEN rate_limits[key] ELSE <<>>

Received(r) == request.stage = "done" /\ request.n < limits.requests
               /\ Idle("t1") /\ request' = [r EXCEPT !.n = request.n + 1]

Stage(stage, events) ==
    request' = [request EXCEPT !.stage = stage, !.trail = @ \o events]

\* The request ends with an error response: its status code and detail.
Reject(status_code, detail) ==
    request' = [request EXCEPT !.stage = "done", !.trail = @ \o <<status_code>>,
                               !.detail = detail]

AuthRequired == "Authentication required"

\* A failure detail that passes no reason on.
auth_failed_generic(message) == "Authentication failed"

\* detail=f"Authentication failed: {message}"
auth_failed(message) == "Authentication failed: " \o message

\* A surface step that does not enter the engine.
SurfaceOnly ==
    /\ ret' = NoReturn
    /\ UNCHANGED <<clock, files, rate_limit_storage, next_device, next_token, limits,
                   faults, calls, frame, hist, rate_time, rate_ticks, rate_ret,
                   accepted, rejected>>

\* A request arrives at mcp_server_app (port 8080) and is routed.
mcp_server_request ==
    /\ \E path \in RemotePaths, ip \in IPs, bearer \in BOOLEAN,
          token \in {NoToken} \cup {x.token : x \in issued} :
          /\ bearer \/ token = NoToken
          /\ \E url_path \in (IF path[1] = "api" THEN UrlPaths(path) ELSE {path}) :
                Received([NoRequest EXCEPT !.app = "mcp", !.path = path,
                            !.url_path = url_path, !.peer = ip, !.ip = ip,
                            !.bearer = bearer, !.token = token,
                            !.stage = IF path[1] = "api" THEN "mcp_app"
                                      ELSE path[1]])
    /\ UNCHANGED rate_limits
    /\ SurfaceOnly

\* @mcp_security.rate_limit(max_requests=5, window_seconds=900) on /register
register_device_rate_limit ==
    /\ request.stage = "register"
    /\ LET rate_key == "ip:" \o request.ip
           r == security_check_rate_limit(RateEntries(rate_key), rate_time,
                    register_max_requests, register_window_seconds)
       IN  /\ rate_limits' = Put(rate_limits, rate_key, r.entries)
           /\ IF r.ok THEN Stage("registering", <<"rate_limit">>)
              ELSE Stage("done", <<"rate_limit", "429">>)
    /\ SurfaceOnly

\* register_device calls the engine: the registration of the caller's IP
register_device(t) ==
    /\ request.stage = "registering"
    /\ ret.op = "none"
    /\ request_device_registration(t)

register_device_responds ==
    /\ request.stage = "registering"
    /\ Idle("t1") /\ ret.op = "register"
    /\ Stage("done", <<"endpoint">>)
    /\ UNCHANGED rate_limits
    /\ SurfaceOnly

mcp_health_check ==
    /\ request.stage = "health"
    /\ Stage("done", <<"endpoint">>)
    /\ UNCHANGED rate_limits
    /\ SurfaceOnly

\* The middleware of the mounted application, up to the call of
\* validate_token (without credentials authenticate_device_token raises 401).
authenticate_mcp_requests ==
    /\ request.stage = "mcp_app"
    /\ IF request.url_path \in {<<"health">>, <<"register">>}
       THEN Stage("done", <<"call_next">>)
       ELSE IF startswith_mcp(request.url_path)
       THEN IF ~request.bearer THEN Reject("401", AuthRequired)
            ELSE Stage("validating", <<"validate_token">>)
       ELSE Stage("done", <<"call_next">>)
    /\ UNCHANGED rate_limits
    /\ SurfaceOnly

\* validate_token(credentials.credentials, client_ip)
authenticate_device_token(t) ==
    /\ request.stage = "validating"
    /\ ret.op = "none"
    /\ validate_token(t)
    /\ IF frame'[t].pc = "idle" THEN ret'.token = request.token
       ELSE frame'[t].token = request.token

\* The result of validate_token: 401, or device_info and call_next.
authenticate_device_token_returns ==
    /\ request.app = "mcp"
    /\ request.stage = "validating"
    /\ Idle("t1") /\ ret.op = "validate"
    /\ IF ret.ok THEN Stage("done", <<"valid", "call_next">>)
       ELSE Reject("401", auth_failed(ret.msg))
    /\ UNCHANGED rate_limits
    /\ SurfaceOnly

\* A request arrives at admin_app (port 8081).
admin_request ==
    /\ \E caller \in limits.callers, endpoint \in AdminEndpoints,
          device_id \in {NoDevice} \cup KnownIds,
          token \in {NoToken} \cup {x.token : x \in issued} :
          /\ (endpoint \in {"approve", "reject", "revoke"}) = (device_id # NoDevice)
          /\ caller.bearer = (token # NoToken)
          /\ Received([NoRequest EXCEPT !.app = "admin", !.peer = caller.peer,
                         !.ip = get_client_ip(caller),
                         !.bearer = caller.bearer, !.token = token,
                         !.path = <<"api", endpoint>>,
                         !.url_path = <<"api", endpoint>>,
                         !.endpoint = endpoint, !.device_id = device_id,
                         !.stage = "admin_rate"])
    /\ UNCHANGED rate_limits
    /\ SurfaceOnly

\* admin_rate_limiting, registered last and therefore run first
admin_rate_limiting ==
    /\ request.stage = "admin_rate"
    /\ LET rate_key == "admin:" \o request.ip
           r == security_check_rate_limit(RateEntries(rate_key), rate_time,
                    admin_max_requests, admin_window_seconds)
       IN  /\ rate_limits' = Put(rate_limits, rate_key, r.entries)
           /\ IF r.ok THEN Stage("admin_origin", <<"rate_limit">>)
              ELSE Stage("done", <<"rate_limit", "429">>)
    /\ SurfaceOnly

restrict_to_local_network ==
    /\ request.stage = "admin_origin"
    /\ IF is_local_network(request.ip)
       THEN Stage("admin_call", <<"origin_check">>)
       ELSE Stage("done", <<"origin_check", "403">>)
    /\ UNCHANGED rate_limits
    /\ SurfaceOnly

\* The engine call of the administrative endpoint asked for.
ForDevice(t) ==
    IF frame'[t].pc = "idle" THEN ret'.device_id = request.device_id
    ELSE frame'[t].device_id = request.device_id

admin_endpoint(t) ==
    /\ request.stage = "admin_call"
    /\ ret.op = "none"
    /\ \/ request.endpoint = "stats" /\ get_system_stats(t)
       \/ request.endpoint = "pending" /\ get_pending_requests(t)
       \/ request.endpoint = "devices" /\ get_approved_devices(t)
       \/ request.endpoint = "approve" /\ approve_device(t) /\ ForDevice(t)
       \/ request.endpoint = "reject" /\ reject_device_request(t) /\ ForDevice(t)
       \/ request.endpoint = "revoke" /\ revoke_device(t) /\ ForDevice(t)

admin_endpoint_responds ==
    /\ request.stage = "admin_call"
    /\ Idle("t1") /\ ret.op # "none"
    /\ Stage("done", <<"endpoint">>)
    /\ UNCHANGED rate_limits
    /\ SurfaceOnly

\* The two servers on one engine, serving one request at a time.
InitSurface ==
    /\ Constructed
    /\ limits = [calls |-> MaxRequests, devices |-> rate_max_requests, faults |-> 0,
                 expiry |-> ExpiryInputs, requests |-> MaxRequests,
                 callers |-> AdminCallers]

NextSurface ==
    \/ mcp_server_request
    \/ register_device_rate_limit
    \/ register_device_responds
    \/ mcp_health_check
    \/ authenticate_mcp_requests
    \/ authenticate_device_token_returns
    \/ admin_request
    \/ admin_rate_limiting
    \/ restrict_to_local_network
    \/ admin_endpoint_responds
    \/ \E t \in OneTask :
        \/ register_device(t)
        \/ authenticate_device_token(t)
        \/ admin_endpoint(t)
        \/ registration_save_open(t)
        \/ registration_save_write(t)
        \/ validate_save_open(t)
        \/ validate_save_write(t)
        \/ approve_load_approved(t)
        \/ approve_open_approved(t)
        \/ approve_write_approved(t)
        \/ approve_open_pending(t)
        \/ approve_write_pending(t)
        \/ reject_save_open(t)
        \/ reject_save_write(t)
        \/ revoke_load_revoked(t)
        \/ revoke_open_approved(t)
        \/ revoke_write_approved(t)
        \/ revoke_open_revoked(t)
        \/ revoke_write_revoked(t)
        \/ stats_load_approved(t)
        \/ stats_load_revoked(t)

SpecSurface == InitSurface /\ [][NextSurface]_vars

\* ------------------------------------- the administrative surface alone
\* Callers inside and just outside the private ranges, with and without a
\* token, and callers from outside whose headers name another address.
OriginCallers ==
    {Caller("10.0.0.5", <<>>, "", FALSE),
     Caller("172.31.255.254", <<>>, "", FALSE),
     Caller("172.32.0.1", <<>>, "", TRUE),
     Caller("203.0.113.9", <<>>, "", FALSE),
     Caller("203.0.113.9", <<"10.0.0.5", "203.0.113.9">>, "", FALSE),
     Caller("203.0.113.9", <<>>, "127.0.0.1", FALSE),
     Caller("10.0.0.5", <<"not-an-ip">>, "", FALSE)}

\* A device asks for registration while no administrative request is served.
device_registers(t) ==
    /\ request.stage = "done"
    /\ request_device_registration(t)

InitOrigin ==
    /\ Constructed
    /\ limits = [calls |-> MaxOriginCalls, devices |-> MaxDevices, faults |-> 0,
                 expiry |-> ExpiryInputs, requests |-> MaxOriginRequests,
                 callers |-> OriginCallers]

NextOrigin ==
    \/ admin_request
    \/ admin_rate_limiting
    \/ restrict_to_local_network
    \/ admin_endpoint_responds
    \/ \E t \in OneTask :
        \/ device_registers(t)
        \/ admin_endpoint(t)
        \/ registration_save_open(t)
        \/ registration_save_write(t)
        \/ approve_load_approved(t)
        \/ approve_open_approved(t)
        \/ approve_write_approved(t)
        \/ approve_open_pending(t)
        \/ approve_write_pending(t)
        \/ reject_save_open(t)
        \/ reject_save_write(t)
        \/ revoke_load_revoked(t)
        \/ revoke_open_approved(t)
        \/ revoke_write_approved(t)
        \/ revoke_open_revoked(t)
        \/ revoke_write_revoked(t)
        \/ stats_load_approved(t)
        \/ stats_load_revoked(t)

SpecOrigin == InitOrigin /\ [][NextOrigin]_vars

\* ------------------------------ an operation behind require_device_auth
\* The permission names an operation can declare: none, one every token
\* has, and a list with names no token has.
RequiredPermissions ==
    {<<>>, <<"list_vms">>, <<"shutdown", "list_vms", "admin">>}

RECURSIVE Join(_)
\* ', '.join(names)
Join(names) ==
    IF names = <<>> THEN ""
    ELSE IF Len(names) = 1 THEN names[1]
    ELSE names[1] \o ", " \o Join(Tail(names))

InSeq(x, seq) == \E i \in 1..Len(seq) : seq[i] = x

\* Every declared name reported as missing.
missing_permissions_all(permissions, device_permissions) == permissions

\* [p for p in permissions if p not in device_permissions]
missing_permissions(permissions, device_permissions) ==
    SelectSeq(permissions, LAMBDA p : ~InSeq(p, device_permissions))

\* A request arrives at an operation wrapped by require_device_auth.
protected_request ==
    /\ \E bearer \in BOOLEAN, token \in {NoToken} \cup {x.token : x \in issued},
          permissions \in RequiredPermissions :
          /\ bearer \/ token = NoToken
          /\ Received([NoRequest EXCEPT !.app = "wrapped", !.bearer = bearer,
                         !.token = token, !.required = permissions,
                         !.stage = "wrapped"])
    /\ UNCHANGED rate_limits
    /\ SurfaceOnly

\* A wrapper that hands every request to validate_token.
require_device_auth_unconditional ==
    /\ request.stage = "wrapped"
    /\ Stage("validating", <<"validate_token">>)
    /\ UNCHANGED rate_limits
    /\ SurfaceOnly

\* The wrapper up to the call of validate_token: without credentials
\* authenticate_device_token raises 401.
require_device_auth ==
    /\ request.stage = "wrapped"
    /\ IF ~request.bearer THEN Reject("401", AuthRequired)
       ELSE Stage("validating", <<"validate_token">>)
    /\ UNCHANGED rate_limits
    /\ SurfaceOnly

\* The wrapper from the result of validate_token on: 401, the permission
\* check with its 403, or the wrapped operation.
require_device_auth_returns ==
    /\ request.app = "wrapped"
    /\ request.stage = "validating"
    /\ Idle("t1") /\ ret.op = "validate"
    /\ IF ~ret.ok THEN Reject("401", auth_failed(ret.msg))
       ELSE LET missing == missing_permissions(request.required,
                                               ret.info.permissions)
            IN  IF request.required # <<>> /\ missing # <<>>
                THEN Reject("403", "Missing required permissions: "
                                       \o Join(missing))
                ELSE Stage("done", <<"valid", "endpoint">>)
    /\ UNCHANGED rate_limits
    /\ SurfaceOnly

\* The administrator approves or revokes between two requests.
device_approved(t) == request.stage = "done" /\ approve_device(t)
device_revoked(t) == request.stage = "done" /\ revoke_device(t)

\* Time passes between two requests.
PolicyTick == request.stage = "done" /\ Tick

InitPolicy ==
    /\ Constructed
    /\ limits = [calls |-> MaxPolicyCalls, devices |-> MaxDevices, faults |-> 0,
                 expiry |-> ExpiryInputs, requests |-> MaxPolicyRequests,
                 callers |-> AdminCallers]

NextPolicy ==
    \/ PolicyTick
    \/ protected_request
    \/ require_device_auth
    \/ require_device_auth_returns
    \/ \E t \in OneTask :
        \/ device_registers(t)
        \/ device_approved(t)
        \/ device_revoked(t)
        \/ authenticate_device_token(t)
        \/ registration_save_open(t)
        \/ registration_save_write(t)
        \/ approve_load_approved(t)
        \/ approve_open_approved(t)
        \/ approve_write_approved(t)
        \/ approve_open_pending(t)
        \/ approve_write_pending(t)
        \/ revoke_load_revoked(t)
        \/ revoke_open_approved(t)
        \/ revoke_write_approved(t)
        \/ revoke_open_revoked(t)
        \/ revoke_write_revoked(t)
        \/ validate_save_open(t)
        \/ validate_save_write(t)

SpecPolicy == InitPolicy /\ [][NextPolicy]_vars

\* =====================================================================
\* Vocabulary of the properties
\* =====================================================================
AllIdle == \A t \in Tasks : Idle(t)

\* The token whose hash a record carries.
TokenOf(record) == record.token_hash[2]

\* The step is the part of validate_token(token) up to its decision, and
\* the decision is msg.
ValidateDecides(token, msg) ==
    \/ /\ ret'.op = "validate"
       /\ ret'.msg \in {MsgInvalid, MsgRevoked}
       /\ ret'.token = token
       /\ ret'.msg = msg
    \/ \E t \in Tasks :
        /\ Idle(t)
        /\ frame'[t].pc = "val_open"
        /\ frame'[t].token = token
        /\ frame'[t].outcome = msg

\* The step is the return of a validate_token call that saved the document.
ValidateReturns(t) == frame[t].pc = "val_write" /\ frame'[t].pc = "idle"

\* ---------------------------------------------------------------- C1
\* C1 (as claimed): validate_token(t) succeeds if and only if the document
\* it loads holds a record with hash(t), status approved and expires_at
\* later than now; otherwise it returns ok = false and no device info.
C1_Holds(token, strictly) ==
    \E d \in DOMAIN approved_file :
        /\ approved_file[d].token_hash = hash_token(token)
        /\ approved_file[d].status = APPROVED
        /\ IF strictly THEN approved_file[d].expires_at > clock
                       ELSE approved_file[d].expires_at >= clock

C1_Step(strictly) ==
    /\ \A token \in 0..MaxTokens, msg \in {MsgInvalid, MsgRevoked, MsgExpired, MsgValid} :
          ValidateDecides(token, msg) =>
              (msg = MsgValid <=> C1_Holds(token, strictly))
    /\ \A t \in Tasks : ValidateReturns(t) =>
          /\ ret'.ok <=> frame[t].outcome = MsgValid
          /\ ~ret'.ok => ret'.info = NoInfo
    /\ ret'.op = "validate" /\ ret'.msg \in {MsgInvalid, MsgRevoked} =>
          ~ret'.ok /\ ret'.info = NoInfo

TwoApprovalsDone ==
    /\ AllIdle
    /\ calls = 4
    /\ Cardinality({x.device_id : x \in issued}) = 2

C2_BothApprovalsStored ==
    TwoApprovalsDone =>
        \A x \in issued :
            /\ x.device_id \in DOMAIN approved_file
            /\ approved_file[x.device_id].token_hash = hash_token(x.token)
            /\ approved_file[x.device_id].status = APPROVED

\* ---------------------------------------------------------------- C3
\* C3: between the load and the save of a document by one operation, no
\* other operation saves that document.
PendingWindow == {"reg_open", "reg_write", "app_load", "app_open_a", "app_write_a",
                  "app_open_p", "app_write_p", "rej_open", "rej_write"}
ApprovedWindow == {"app_open_a", "app_write_a", "rev_load", "rev_open_a",
                   "rev_write_a", "val_open", "val_write", "cln_open", "cln_write"}
RevokedWindow == {"rev_open_a", "rev_write_a", "rev_open_r", "rev_write_r"}
PendingSave == {"reg_open", "reg_write", "app_open_p", "app_write_p",
                "rej_open", "rej_write"}
ApprovedSave == {"app_open_a", "app_write_a", "rev_open_a", "rev_write_a",
                 "val_open", "val_write", "cln_open", "cln_write"}
RevokedSave == {"rev_open_r", "rev_write_r"}

Serialized(window, save) ==
    \A t, u \in Tasks :
        (t # u /\ frame[t].pc \in window /\ frame[u].pc \in save)
            => frame'[u] = frame[u]

C3_LoadSaveSerialized ==
    [][/\ Serialized(PendingWindow, PendingSave)
       /\ Serialized(ApprovedWindow, ApprovedSave)
       /\ Serialized(RevokedWindow, RevokedSave)]_vars

\* ---------------------------------------------------------------- C4
\* C4: once approve_device(d) has returned success, every other
\* approve_device(d) returns (False, 'Device request not found', None):
\* at most one approval of d succeeds and at most one token is issued for d.
C4_ApproveAtMostOnce ==
    [][(ret'.op = "approve" /\ \E x \in issued : x.device_id = ret'.device_id)
          => (~ret'.ok /\ ret'.msg = MsgNotFound /\ ret'.token = NoToken)]_vars

\* ---------------------------------------------------------------- C5
\* C5: after revoke_device(d) has returned success, every validate_token
\* call for d's token that starts afterwards fails with 'Device access has
\* been revoked'.
C5_RevokedStaysRevoked ==
    [][\A x \in issued, msg \in {MsgInvalid, MsgRevoked, MsgExpired, MsgValid} :
          (x.device_id \in revoke_ok /\ ValidateDecides(x.token, msg))
              => msg = MsgRevoked]_vars

\* ---------------------------------------------------------------- C6
\* C6: validate_token on an approved token whose expires_at has passed
\* decides 'Token has expired' and has the status 'expired' stored when it
\* returns; validate_token on a token already stored as 'expired' decides
\* the same and writes the document back as it loaded it (usage_count and
\* last_used_at untouched).
C6_Step ==
    /\ \A t \in Tasks :
          (Idle(t) /\ frame'[t].pc = "val_open") =>
              LET d == frame'[t].device_id
                  loaded == approved_file[d]
              IN  /\ (loaded.status = APPROVED /\ clock > loaded.expires_at) =>
                        /\ frame'[t].outcome = MsgExpired
                        /\ frame'[t].approved_devices[d] =
                               [loaded EXCEPT !.status = EXPIRED]
                  /\ loaded.status = EXPIRED =>
                        /\ frame'[t].outcome = MsgExpired
                        /\ frame'[t].approved_devices = approved_file
    /\ \A t \in Tasks :
          (ValidateReturns(t) /\ ret'.msg = MsgExpired) =>
              /\ frame[t].device_id \in DOMAIN approved_file'
              /\ approved_file'[frame[t].device_id].status = EXPIRED
              /\ approved_file' = frame[t].approved_devices

C6_ExpiryPersistedIdempotent == [][C6_Step]_vars

\* A validation that found the token already stored as expired, decided
\* 'expired' again and is about to write the document back unchanged.
C6_Witness ==
    \E t \in Tasks :
        /\ frame[t].pc = "val_open"
        /\ frame[t].outcome = MsgExpired
        /\ frame[t].approved_devices = approved_file
        /\ approved_file[frame[t].device_id].status = EXPIRED

\* ---------------------------------------------------------------- C7
\* C7: the stored usage_count of every DeviceToken equals the number of
\* validate_token calls for its token that returned success, and
\* last_used_at is the time of the latest successful validation.
C7_UsageCountExact ==
    \A d \in DOMAIN approved_file :
        LET record == approved_file[d] IN
        /\ record.usage_count = valid_count[TokenOf(record)]
        /\ record.last_used_at = valid_last[TokenOf(record)]

\* ---------------------------------------------------------------- C8
\* C8: a token whose device has been revoked is never reported as expired
\* by validate_token (revoked takes priority over expired).
C8_RevokedNeverReportedExpired ==
    [][\A x \in issued :
          (x.device_id \in revoke_ok) => ~ValidateDecides(x.token, MsgExpired)]_vars

\* ---------------------------------------------------------------- C9
\* C9: a DeviceToken whose stored status has been 'revoked' or 'expired'
\* is never stored with status 'approved' again.
C9_NeverBackToApproved ==
    [][\A k \in 1..MaxTokens :
          last_status[k] \in {REVOKED, EXPIRED} => last_status'[k] # APPROVED]_vars

\* --------------------------------------------------------------- C10
\* C10: revoked and expired are terminal: no operation changes the stored
\* status of a DeviceToken from revoked to expired or from expired to
\* revoked.
C10_TerminalStates ==
    [][\A k \in 1..MaxTokens :
          /\ ~(last_status[k] = REVOKED /\ last_status'[k] = EXPIRED)
          /\ ~(last_status[k] = EXPIRED /\ last_status'[k] = REVOKED)]_vars
\* --------------------------------------------------------------- C11
\* C11: approval moves a record from one document to the other in one
\* step: in every state, also between the steps of an approve_device call
\* in flight, no device_id is both in the pending-requests document and in
\* the approved-devices document.
C11_NeverPendingAndApproved ==
    DOMAIN pending_file \cap DOMAIN approved_file = {}

\* --------------------------------------------------------------- C12
\* C12: a pending request is consumed once, by approval or by rejection:
\* no device_id has both a successful rejection and a successful approval,
\* and a device whose rejection succeeded has no DeviceToken.
C12_ApprovedOrRejected ==
    \A d \in reject_ok :
        /\ d \notin {x.device_id : x \in issued}
        /\ d \notin DOMAIN approved_file

\* --------------------------------------------------------------- C13
\* C13: no registration is lost: a device_id whose registration returned
\* success is in the pending-requests document, in every state in which no
\* call is in flight, until an approval or a rejection of it succeeds.
Registered ==
    {d \in KnownIds : \A t \in Tasks :
        ~(frame[t].pc \in {"reg_open", "reg_write"} /\ frame[t].device_id = d)}

C13_RegistrationKept ==
    AllIdle =>
        \A d \in Registered :
            \/ d \in DOMAIN pending_file
            \/ d \in reject_ok
            \/ d \in {x.device_id : x \in issued}

\* --------------------------------------------------------------- C14
\* C14: DeviceToken records are never deleted: a record that has been
\* stored in the approved-devices document is, in every later state in
\* which no call is in flight, in that document under the same device_id
\* with the same token_hash.
C14_TokenRecordsKept ==
    AllIdle =>
        \A x \in issued :
            /\ x.device_id \in DOMAIN approved_file
            /\ approved_file[x.device_id].token_hash = hash_token(x.token)
\* --------------------------------------------------------------- C15
\* C15: a save that fails never corrupts the document: after the failed
\* _save_json_file the document loads as the complete mapping it held
\* before the save or as the complete mapping being saved.
DocAt(pc, pending, approved, revoked) ==
    CASE pc \in {"reg_open", "reg_write", "app_open_p", "app_write_p",
                 "rej_open", "rej_write"} -> pending
      [] pc \in {"rev_open_r", "rev_write_r"} -> revoked
      [] OTHER -> approved

SaveFails(t) ==
    /\ frame[t].pc \in OpenPcs \cup WritePcs
    /\ faults' = faults + 1

C15_FailedSaveKeepsDocument ==
    [][\A t \in Tasks : SaveFails(t) =>
          LET pc == frame[t].pc
              old == IF pc \in OpenPcs
                     THEN DocAt(pc, pending_file, approved_file, revoked_file)
                     ELSE frame[t].replaced
              new == DocAt(pc, frame[t].pending_requests, frame[t].approved_devices,
                           frame[t].revoked_tokens)
          IN  DocAt(pc, pending_file', approved_file', revoked_file') \in {old, new}]_vars

\* --------------------------------------------------------------- C16
\* C16: a storage failure propagates: when a read or a write of a document
\* fails in a step of register, approve, revoke or validate, the operation
\* does not report success, and it does not go on to save a document built
\* from a mapping other than the stored one (it goes on only if the
\* document it failed to read was empty anyway).
Mutating == {"register", "approve", "revoke", "validate"}

\* The document whose load brought a coroutine to this position.
LoadedAt(pc) ==
    CASE pc = "reg_open" -> pending_file
      [] pc = "app_open_a" -> approved_file
      [] pc = "rev_open_a" -> revoked_file
      [] OTHER -> EmptyDoc

C16_StorageFailurePropagates ==
    [][faults' = faults + 1 =>
          /\ \A t \in Tasks :
                (frame'[t] # frame[t] /\ OpOf(frame'[t].pc) \in Mutating)
                    => LoadedAt(frame'[t].pc) = EmptyDoc
          /\ ret'.op \in Mutating => ~ret'.ok]_vars

\* --------------------------------------------------------------- C17
\* C17: whenever approve_device returns ok = false, no token has been
\* issued: every DeviceToken in the approved-devices document is one whose
\* plaintext token an approve_device call has returned.
C17_FailedApproveIssuesNothing ==
    [][(ret'.op = "approve" /\ ~ret'.ok) =>
          \A d \in DOMAIN approved_file' :
              \E x \in issued :
                  /\ x.device_id = d
                  /\ approved_file'[d].token_hash = hash_token(x.token)]_vars
\* --------------------------------------------------------------- C18
\* C18: the rate limiter bounds the accepted calls per key: for every key
\* and every interval of length window_seconds (half-open, at either end),
\* at most max_requests calls of _check_rate_limit for that key made inside
\* the interval returned true.
AcceptedIn(key, from, to, from_closed) ==
    Cardinality({i \in DOMAIN accepted[key] :
        /\ IF from_closed THEN accepted[key][i] >= from ELSE accepted[key][i] > from
        /\ IF from_closed THEN accepted[key][i] < to ELSE accepted[key][i] <= to})

RateCall(key) == rate_ret'.key = key

C19_Step ==
    \A key \in RateKeys : RateCall(key) =>
        /\ ~rate_ret'.ok =>
              /\ Len(rate_limits'[key]) <= Len(rate_limits[key])
              /\ \A i \in DOMAIN rate_limits'[key] :
                    \E j \in DOMAIN rate_limits[key] :
                        rate_limits'[key][i] = rate_limits[key][j]
        /\ (/\ rate_limits[key] # <<>>
            /\ rate_time - rate_limits[key][1] > register_window_seconds)
              => rate_ret'.ok

C19_RefusedNotRecordedKeyRecovers == [][C19_Step]_vars

\* A key that was blocked, was refused more than once, and has just had a
\* call accepted more than window_seconds after its oldest accepted call.
C19_Witness ==
    \E key \in RateKeys :
        /\ rate_ret = [key |-> key, ok |-> TRUE]
        /\ rejected[key] >= 2
        /\ Len(accepted[key]) > register_max_requests
        /\ rate_time - accepted[key][1] > register_window_seconds
\* --------------------------------------------------------------- C20
\* C20: a request_device_registration made when the IP already has 5
\* registrations within the last 15 minutes returns (False, rate-limit
\* message, None) and creates no record: the three documents are unchanged
\* and no device_id is generated or returned.
RegistrationStarts ==
    /\ calls' = calls + 1
    /\ \E t \in Tasks :
          /\ Idle(t)
          /\ frame'[t].pc = "reg_open" \/ ret'.op = "register"

OverLimit ==
    \A ip \in IPs :
        Len(RateKept(rate_limit_storage[ip], clock)) >= rate_max_requests

C20_RefusedRegistrationCreatesNothing ==
    [][(RegistrationStarts /\ OverLimit) =>
          /\ ret' = [op |-> "register", ok |-> FALSE, msg |-> MsgRateLimit,
                      device_id |-> NoDevice, token |-> NoToken, info |-> NoInfo]
          /\ UNCHANGED <<files, next_device, frame>>]_vars

\* A sixth registration has just been refused while requests are pending.
C20_Witness ==
    /\ ret.op = "register"
    /\ ret.msg = MsgRateLimit
    /\ pending_file # EmptyDoc
    /\ next_device = rate_max_requests + 1
\* --------------------------------------------------------------- C21
\* C21: approve_device stamps the token with the time of the call and, when
\* it stores it, the record has expires_at = created_at + min(expiry_days,
\* 365) days (30 days when expiry_days is not given), status 'approved' and
\* usage_count 0.
Min(a, b) == IF a < b THEN a ELSE b

LifetimeDays(arg) ==
    IF arg.given THEN Min(arg.days, 365) ELSE 30

ApproveStamps(t) == Idle(t) /\ frame'[t].pc = "app_load"

ApproveStores(t) == frame[t].pc = "app_write_a" /\ frame'[t].pc = "app_open_p"

C21_TokenLifetime ==
    [][\A t \in Tasks :
          /\ ApproveStamps(t) => frame'[t].device_token.created_at = clock
          /\ ApproveStores(t) =>
                LET rec == approved_file'[frame[t].device_id]
                IN  /\ rec = frame[t].device_token
                    /\ rec.expires_at =
                           rec.created_at + LifetimeDays(frame[t].expiry_arg)
                    /\ rec.status = APPROVED
                    /\ rec.usage_count = 0]_vars

\* A token asked for with more than 365 days is stored with exactly 365.
C21_Witness ==
    \E t \in Tasks :
        /\ frame[t].pc = "app_open_p"
        /\ frame[t].expiry_arg.days > max_token_expiry_days
        /\ approved_file[frame[t].device_id].expires_at =
               approved_file[frame[t].device_id].created_at + max_token_expiry_days

\* --------------------------------------------------------------- C22
\* C22: every DeviceToken record of the approved-devices document has
\* expires_at >= created_at, whatever expiry_days the administrative
\* surface passed to approve_device (zero and negative values included).
C22_ExpiryNotBeforeCreation ==
    \A d \in DOMAIN approved_file :
        approved_file[d].expires_at >= approved_file[d].created_at
\* --------------------------------------------------------------- C23
\* C23: the plaintext token is produced exactly once: a successful
\* approve_device returns a token no earlier call returned, no other
\* operation returns a token, no returned device data has a token field, and
\* the three documents hold no token field and only digests as token_hash.
NoPlaintext(doc) ==
    \A d \in DOMAIN doc :
        /\ "token" \notin DOMAIN doc[d]
        /\ "token_hash" \in DOMAIN doc[d] => doc[d].token_hash[1] = "sha256"

Listing(r) == r.op \in {"list_pending", "list_devices"}

\* What a call hands back besides its token slot carries no token field.
NoTokenField(r) ==
    IF Listing(r) THEN \A d \in DOMAIN r.info : "token" \notin DOMAIN r.info[d]
    ELSE "token" \notin DOMAIN r.info

C23_Step ==
    /\ NoPlaintext(pending_file') /\ NoPlaintext(approved_file')
    /\ NoPlaintext(revoked_file')
    /\ NoTokenField(ret')
    /\ (ret'.op = "approve" /\ ret'.ok) =>
           /\ ret'.token # NoToken
           /\ \A x \in issued : x.token # ret'.token
    /\ (ret'.op = "approve" /\ ~ret'.ok) => ret'.token = NoToken
    /\ ret'.op \notin {"approve", "validate"} => ret'.token = NoToken

C23_PlaintextOnlyFromApprove == [][C23_Step]_vars

\* The devices are listed after a first and a second token were issued.
C23_Witness ==
    /\ ret.op = "list_devices"
    /\ Cardinality(issued) = 2
    /\ \A x \in issued : x.device_id \in DOMAIN ret.info
\* --------------------------------------------------------------- C24
\* C24: no token_hash leaves the engine: the device info of a successful
\* validate_token and every entry of get_approved_devices have neither a
\* token_hash nor a token field, and no other call hands back a device
\* record (its info is empty, a count, or the pending requests).
Secretless(rec) == DOMAIN rec \cap {"token_hash", "token"} = {}

C24_Step ==
    /\ (ret'.op = "validate" /\ ret'.ok) => Secretless(ret'.info)
    /\ ret'.op = "list_devices" =>
           \A d \in DOMAIN ret'.info : Secretless(ret'.info[d])
    /\ ret'.op = "list_pending" =>
           \A d \in DOMAIN ret'.info : Secretless(ret'.info[d])
    /\ ret'.op = "stats" => Secretless(ret'.info)
    /\ ret'.op \notin {"validate", "list_devices", "list_pending", "stats"} =>
           ret'.info = NoInfo

C24_NoTokenHashLeaves == [][C24_Step]_vars

\* An approved device is listed after its token was validated once.
C24_Witness ==
    /\ ret.op = "list_devices"
    /\ \E d \in DOMAIN ret.info :
          /\ ret.info[d].usage_count > 0
          /\ approved_file[d].token_hash[1] = "sha256"
\* --------------------------------------------------------------- C25
\* C25: revoke_device(d) for a d without a record in the approved-devices
\* document fails with 'Device not found' and changes no document; a
\* successful revoke_device(d) leaves d's record with status 'revoked' and a
\* RevocationRecord for d, both persisted; a failed one, for whatever
\* reason, leaves the approved-devices and the revocation document as they
\* were when the call started.
RevokeReturns(t) == frame[t].pc \in {"idle", "rev_open_a", "rev_write_a",
                                     "rev_open_r", "rev_write_r"}
                    /\ frame'[t].pc = "idle" /\ ret'.op = "revoke"

AtCallStart(t) ==
    IF Idle(t) THEN [approved |-> approved_file, revoked |-> revoked_file]
    ELSE frame[t].before

C25_Step(t) ==
    LET d == ret'.device_id IN
    /\ (Idle(t) /\ d \notin DOMAIN approved_file) =>
           /\ ~ret'.ok /\ ret'.msg = MsgDeviceNotFound
           /\ UNCHANGED files
    /\ ret'.ok =>
           /\ d \in DOMAIN approved_file' /\ approved_file'[d].status = REVOKED
           /\ d \in DOMAIN revoked_file'
    /\ ~ret'.ok =>
           /\ approved_file' = AtCallStart(t).approved
           /\ revoked_file' = AtCallStart(t).revoked

C25_RevokeAllOrNothing ==
    [][\A t \in Tasks : RevokeReturns(t) => C25_Step(t)]_vars
\* --------------------------------------------------------------- C26
\* C26: RevocationRecords are write-once: a save of the revocation document
\* keeps every record the document held, with its revoked_at, reason,
\* device_name and token_hash as they were, also when the save belongs to a
\* further revoke_device of the same device or runs next to another
\* revocation.
RevocationSaved(t) == frame[t].pc = "rev_write_r" /\ frame'[t].pc = "idle"
                      /\ ret'.ok

C26_RevocationRecordsWriteOnce ==
    [][\A t \in Tasks :
          RevocationSaved(t) =>
              \A d \in DOMAIN frame[t].replaced :
                  /\ d \in DOMAIN revoked_file'
                  /\ revoked_file'[d] = frame[t].replaced[d]]_vars
\* --------------------------------------------------------------- C27
\* C27: cleanup_expired_tokens is idempotent: what a run is about to save is
\* what a second run at the same time would save again, and a run saves the
\* approved-devices document only when it found a token newly past its
\* expires_at, i.e. one whose record is not marked expired yet.
CleanupSaves(t) == Idle(t) /\ frame'[t].pc = "cln_open"

NewlyExpired(doc, now) ==
    {d \in DOMAIN doc : doc[d].status # EXPIRED /\ now > doc[d].expires_at}

C27_CleanupIdempotent ==
    [][\A t \in Tasks :
          CleanupSaves(t) =>
              /\ MarkExpired(frame'[t].approved_devices, clock) =
                     frame'[t].approved_devices
              /\ NewlyExpired(approved_file, clock) # {}]_vars
\* --------------------------------------------------------------- C28
\* C28: cleanup_expired_tokens changes only the status of the records that
\* are 'approved' and past their expires_at: in the document it saves every
\* other record (a revoked one in particular) and every other field is as
\* loaded, and its steps leave the pending-requests and the revocation
\* document alone.
CleanupStep(t) ==
    \/ CleanupSaves(t)
    \/ frame[t].pc \in {"cln_open", "cln_write"} /\ frame'[t].pc # frame[t].pc

OnlyApprovedExpire(loaded, saved, now) ==
    /\ DOMAIN saved = DOMAIN loaded
    /\ \A d \in DOMAIN loaded :
          saved[d] = IF loaded[d].status = APPROVED /\ now > loaded[d].expires_at
                     THEN [loaded[d] EXCEPT !.status = EXPIRED]
                     ELSE loaded[d]

C28_CleanupFrame ==
    [][\A t \in Tasks :
          /\ CleanupStep(t) => UNCHANGED <<pending_file, revoked_file>>
          /\ CleanupSaves(t) =>
                OnlyApprovedExpire(approved_file, frame'[t].approved_devices,
                                   clock)]_vars
\* --------------------------------------------------------------- C29
\* C29: on the remote-operation surface a request has been checked by the
\* rate limiter before validate_token is called for it, on the
\* administrative surface before the origin check is made; and the step in
\* which the rate limiter rejects a request ends the request without any
\* read or write of the credential store.
ComesAfter(trail, first, later) ==
    \A j \in 1..Len(trail) :
        trail[j] = later => \E i \in 1..(j - 1) : trail[i] = first

RateLimitRejects ==
    /\ request'.trail # request.trail
    /\ Len(request'.trail) > 0
    /\ request'.trail[Len(request'.trail)] = "429"

C29_Step ==
    /\ request'.app = "mcp" =>
           ComesAfter(request'.trail, "rate_limit", "validate_token")
    /\ request'.app = "admin" =>
           ComesAfter(request'.trail, "rate_limit", "origin_check")
    /\ RateLimitRejects =>
           /\ request'.stage = "done"
           /\ UNCHANGED <<files, frame, calls>>

C29_RateLimiterFirst == [][C29_Step]_vars

\* --------------------------------------------------------------- C30
\* C30: the middleware of the remote-operation application hands a request
\* to call_next, for every path other than /health and /register, only in
\* the step that follows a successful validate_token of the bearer token
\* this request carries.
ReachesCallNext ==
    /\ request.app = "mcp" /\ request.stage \in {"mcp_app", "validating"}
    /\ request'.trail # request.trail
    /\ Len(request'.trail) > 0
    /\ request'.trail[Len(request'.trail)] = "call_next"

C30_Step ==
    (ReachesCallNext /\ request.url_path \notin {<<"health">>, <<"register">>}) =>
        /\ request.bearer
        /\ ret.op = "validate" /\ ret.ok
        /\ ret.token = request.token

C30_AdmissionBeforeCallNext == [][C30_Step]_vars
\* --------------------------------------------------------------- C31
\* C31: the origin policy is an allow-list: a request to the administrative
\* surface whose resolved caller IP is outside 10.0.0.0/8, 172.16.0.0/12,
\* 192.168.0.0/16 and 127.0.0.0/8, or does not parse, ends with 403 at the
\* origin check and no management operation is started for it, with or
\* without a valid token.
InRange(o, first, bits) ==
    LET block == 2 ^ (16 - bits)
        value == o[1] * 256 + o[2]
        base == first[1] * 256 + first[2]
    IN  value \in base..(base + block - 1)

AllowListed(ip) ==
    /\ Octets(ip) # <<>>
    /\ \/ InRange(Octets(ip), <<10, 0>>, 8)
       \/ InRange(Octets(ip), <<172, 16>>, 12)
       \/ InRange(Octets(ip), <<192, 168>>, 16)
       \/ InRange(Octets(ip), <<127, 0>>, 8)

ManagementStarts == request.stage = "admin_call" /\ calls' = calls + 1

OriginChecked ==
    /\ request.stage = "admin_origin" /\ request'.stage # "admin_origin"

C31_Step ==
    /\ ManagementStarts => AllowListed(request.ip)
    /\ (OriginChecked /\ ~AllowListed(request.ip)) =>
           /\ request'.stage = "done"
           /\ request'.trail = <<"rate_limit", "origin_check", "403">>
           /\ UNCHANGED <<files, frame, calls>>

C31_OriginAllowList == [][C31_Step]_vars

\* A caller just outside 172.16.0.0/12 holding an issued token is refused.
C31_Witness ==
    /\ request.app = "admin"
    /\ request.ip = "172.32.0.1"
    /\ request.token \in {x.token : x \in issued}
    /\ request.trail = <<"rate_limit", "origin_check", "403">>
\* --------------------------------------------------------------- C36
\* C36: a request whose transport-level peer address is outside the
\* allow-listed private and loopback ranges is never admitted to the
\* administrative surface (it never passes the origin check), whatever
\* X-Forwarded-For or X-Real-IP headers it carries.
Admitted == OriginChecked /\ request'.stage = "admin_call"

C36_PeerOutsideNeverAdmitted ==
    [][Admitted => AllowListed(request.peer)]_vars
\* --------------------------------------------------------------- C32
\* C32 (as stated): an operation behind require_device_auth runs if and only
\* if validate_token succeeded and every required permission is among the
\* device's permissions; every other request is rejected with 403, the
\* detail listing exactly the required names the device lacks, in the order
\* declared.
WrappedEnds ==
    /\ request.app = "wrapped"
    /\ request.stage # "done" /\ request'.stage = "done"

Validated == request.stage = "validating" /\ ret.op = "validate" /\ ret.ok

Absent ==
    LET has == ret.info.permissions
    IN  SelectSeq(request.required,
                  LAMBDA p : \A i \in 1..Len(has) : has[i] # p)

Outcome(r) == r.trail[Len(r.trail)]

PermissionDenied(r, names) ==
    /\ Outcome(r) = "403"
    /\ r.detail = "Missing required permissions: " \o Join(names)

C32_OtherwiseAlways403 ==
    [][WrappedEnds =>
          IF Validated /\ Absent = <<>> THEN Outcome(request') = "endpoint"
          ELSE /\ Outcome(request') = "403"
               /\ Validated => PermissionDenied(request', Absent)]_vars

\* C32 (amended): the operation runs if and only if validate_token succeeded
\* and every required permission is among the device's permissions; when
\* validate_token succeeded and some are not, the request is rejected with
\* 403 and the detail lists exactly the absent names in the order declared;
\* when there is no credential or validate_token failed, it is rejected
\* with 401 and no permission is looked at.
C32_PermissionPolicy ==
    [][WrappedEnds =>
          IF ~Validated THEN Outcome(request') = "401"
          ELSE IF Absent = <<>> THEN Outcome(request') = "endpoint"
          ELSE PermissionDenied(request', Absent)]_vars

\* A valid token is refused an operation that requires two names it lacks.
C32_Witness ==
    /\ request.app = "wrapped"
    /\ request.required = <<"shutdown", "list_vms", "admin">>
    /\ request.trail = <<"validate_token", "403">>
    /\ request.detail = "Missing required permissions: shutdown, admin"
\* --------------------------------------------------------------- C33
\* C33: a request to an operation behind the token policy that carries no
\* bearer credential is answered 401 "Authentication required" in the one
\* step that looks at it: validate_token is not called, and the three
\* documents, the engine's rate-limit storage and every usage counter are
\* as they were.
NoCredential ==
    /\ request.app = "wrapped" /\ request.stage = "wrapped"
    /\ ~request.bearer
    /\ request' # request

C33_NoCredential401 ==
    [][NoCredential =>
          /\ request'.stage = "done"
          /\ request'.trail = <<"401">>
          /\ request'.detail = "Authentication required"
          /\ frame' = frame
          /\ UNCHANGED <<pending_file, approved_file, revoked_file,
                         rate_limit_storage, valid_count, valid_last>>]_vars

\* A credential-less request has been refused while the store holds a
\* device whose token has been used.
C33_Witness ==
    /\ request.app = "wrapped" /\ ~request.bearer
    /\ request.trail = <<"401">>
    /\ request.detail = "Authentication required"
    /\ \E x \in issued : valid_count[x.token] > 0
\* --------------------------------------------------------------- C34
\* C34: the 401 the token policy returns for a token that matches no record
\* names no cause of its own: its detail is the bare "Authentication failed"
\* or the one of the catch-all validation failure; the 401 for a revoked and
\* the 401 for an expired token carry their own reasons.
PolicyRejects ==
    /\ request.app = "wrapped" /\ request.stage = "validating"
    /\ request'.stage = "done" /\ Outcome(request') = "401"

CauseFreeDetails ==
    {auth_failed_generic(MsgInvalid),
     "Authentication failed: " \o MsgValidationFailed}

C34_UnknownTokenNotIdentified ==
    [][PolicyRejects =>
          LET d == FindByHash(approved_file, hash_token(request.token))
          IN  /\ d = NoDevice => request'.detail \in CauseFreeDetails
              /\ d # NoDevice /\ approved_file[d].status = REVOKED
                    => request'.detail
                          = "Authentication failed: Device access has been revoked"
              /\ d # NoDevice /\ approved_file[d].status = EXPIRED
                    => request'.detail = "Authentication failed: Token has expired"]_vars
\* --------------------------------------------------------------- C35
\* C35: every call of _check_rate_limit does what the reference sliding
\* window does: of the key's list it keeps exactly the timestamps not older
\* than now - window_seconds (one exactly window_seconds old is kept), it
\* returns false and appends nothing when at least max_requests of them
\* remain, it appends now and returns true otherwise, and it leaves the
\* list of every other key as it was.
ReferenceWindow(entries, now, window_seconds) ==
    SelectSeq(entries, LAMBDA req_time : ~(req_time < now - window_seconds))

ReferenceLimiter(entries, now, max_requests, window_seconds) ==
    LET kept == ReferenceWindow(entries, now, window_seconds) IN
    IF Len(kept) >= max_requests
    THEN [ok |-> FALSE, entries |-> kept]
    ELSE [ok |-> TRUE, entries |-> Append(kept, now)]

C35_Step ==
    \A key \in RateKeys : RateCall(key) =>
        LET reference == ReferenceLimiter(rate_limits[key], rate_time,
                             register_max_requests, register_window_seconds)
        IN  /\ rate_ret'.ok = reference.ok
            /\ rate_limits'[key] = reference.entries
            /\ \A other \in RateKeys \ {key} :
                  rate_limits'[other] = rate_limits[other]

C35_EqualsReferenceWindow == [][C35_Step]_vars
\* --------------------------------------------------------------- C37
\* C37: whenever no operation is in progress, revoked_tokens.json holds a
\* record for device_id d if and only if approved_devices.json holds d's
\* token with status 'revoked', and the two carry the same token_hash.
NoOperationInProgress == \A t \in Tasks : Idle(t)

C37_RevocationRecordIffRevoked ==
    NoOperationInProgress =>
        \A d \in DeviceIds :
            /\ d \in DOMAIN revoked_file
                  <=> (d \in DOMAIN approved_file
                       /\ approved_file[d].status = REVOKED)
            /\ (d \in DOMAIN revoked_file /\ d \in DOMAIN approved_file)
                  => revoked_file[d].token_hash = approved_file[d].token_hash
\* --------------------------------------------------------------- C38
\* C38: get_system_stats counts every device under exactly one status:
\* active_devices + expired_devices + revoked_devices = total_devices,
\* revoked_devices is the number of tokens with status 'revoked', and no
\* revoked device is among those counted as expired or active.
StatsReturned == ret.op = "stats" /\ ret.ok

RevokedDevices ==
    {d \in DOMAIN approved_file : approved_file[d].status = REVOKED}

C38_StatsPartitionDevices ==
    StatsReturned =>
        /\ ret.info.active_devices + ret.info.expired_devices
              + ret.info.revoked_devices = ret.info.total_devices
        /\ ret.info.revoked_devices = Cardinality(RevokedDevices)
        /\ ret.info.active_devices + ret.info.expired_devices
              <= Cardinality(DOMAIN approved_file \ RevokedDevices)
\* =====================================================================
\* _initialize_storage, the task the constructor starts
\* =====================================================================
\* for file_path in [pending_requests_file, approved_devices_file,
\*                   revoked_tokens_file]
StorageFiles ==
    <<"pending_requests.json", "approved_devices.json", "revoked_tokens.json">>

Document(file_path) ==
    CASE file_path = "pending_requests.json" -> pending_file
      [] file_path = "approved_devices.json" -> approved_file
      [] file_path = "revoked_tokens.json" -> revoked_file

\* The file at file_path becomes doc, the other two stay.
Written(file_path, doc) ==
    /\ pending_file' = IF file_path = "pending_requests.json" THEN doc
                       ELSE pending_file
    /\ approved_file' = IF file_path = "approved_devices.json" THEN doc
                        ELSE approved_file
    /\ revoked_file' = IF file_path = "revoked_tokens.json" THEN doc
                       ELSE revoked_file

\* The position of the task at the next file of the loop, or past the loop.
NextFile(file_path) ==
    LET i == CHOOSE k \in 1..Len(StorageFiles) : StorageFiles[k] = file_path
    IN  IF i = Len(StorageFiles) THEN [pc |-> "ini_done", file_path |-> ""]
        ELSE [pc |-> "ini_exists", file_path |-> StorageFiles[i + 1]]

InitTask(f) ==
    /\ frame' = [frame EXCEPT !["init"] = f]
    /\ ret' = NoReturn
    /\ UNCHANGED <<clock, rate_limit_storage, next_device, next_token, limits,
                   faults, calls, hist, middleware>>

\* if not file_path.exists(): the file is skipped when it is there.
initialize_storage_exists ==
    /\ frame["init"].pc = "ini_exists"
    /\ IF Document(frame["init"].file_path) # NoFile
       THEN InitTask(NextFile(frame["init"].file_path))
       ELSE InitTask([frame["init"] EXCEPT !.pc = "ini_open"])
    /\ UNCHANGED files

\* aiofiles.open(file_path, 'w'): the file is created, or emptied.
initialize_storage_open ==
    /\ frame["init"].pc = "ini_open"
    /\ Written(frame["init"].file_path, EmptyDoc)
    /\ InitTask([frame["init"] EXCEPT !.pc = "ini_write"])

\* await f.write('{}')
initialize_storage_write ==
    /\ frame["init"].pc = "ini_write"
    /\ Written(frame["init"].file_path, EmptyDoc)
    /\ InitTask(NextFile(frame["init"].file_path))

\* DeviceAuthManager.__init__ on a data directory without the three files:
\* the task is created and has not run yet.
InitStorage ==
    /\ clock = 0
    /\ pending_file = NoFile
    /\ approved_file = NoFile
    /\ revoked_file = NoFile
    /\ rate_limit_storage = [ip \in IPs |-> <<>>]
    /\ next_device = 1
    /\ next_token = 1
    /\ calls = 0
    /\ frame = [t \in Tasks \cup {"init"} |->
                  IF t = "init"
                  THEN [pc |-> "ini_exists", file_path |-> StorageFiles[1]]
                  ELSE IdleFrame]
    /\ ret = NoReturn
    /\ issued = {}
    /\ revoke_ok = {}
    /\ reject_ok = {}
    /\ valid_count = [k \in 1..MaxTokens |-> 0]
    /\ valid_last = [k \in 1..MaxTokens |-> NoTime]
    /\ last_status = [k \in 1..MaxTokens |-> "none"]
    /\ faults = 0
    /\ rate_limits = [key \in RateKeys |-> <<>>]
    /\ rate_time = 0
    /\ rate_ticks = 0
    /\ rate_ret = NoRateReturn
    /\ accepted = [key \in RateKeys |-> <<>>]
    /\ rejected = [key \in RateKeys |-> 0]
    /\ request = NoRequest
    /\ limits = [calls |-> MaxInitCalls, devices |-> MaxDevices, faults |-> 0,
                 expiry |-> ExpiryInputs]

\* The first requests are served while the task runs.
NextStorage ==
    \/ initialize_storage_exists
    \/ initialize_storage_open
    \/ initialize_storage_write
    \/ \E t \in OneTask :
        \/ request_device_registration(t)
        \/ registration_save_open(t)
        \/ registration_save_write(t)
        \/ approve_device(t)
        \/ approve_load_approved(t)
        \/ approve_open_approved(t)
        \/ approve_write_approved(t)
        \/ approve_open_pending(t)
        \/ approve_write_pending(t)
        \/ revoke_device(t)
        \/ revoke_load_revoked(t)
        \/ revoke_open_approved(t)
        \/ revoke_write_approved(t)
        \/ revoke_open_revoked(t)
        \/ revoke_write_revoked(t)

SpecStorage == InitStorage /\ [][NextStorage]_vars

\* --------------------------------------------------------------- C39
\* C39: _initialize_storage never destroys records: no step of the task
\* replaces a document that holds records with an empty mapping.
HoldsRecords(doc) == doc # NoFile /\ doc # EmptyDoc

InitTaskSteps == frame'["init"] # frame["init"]

C39_InitNeverDestroysRecords ==
    [][InitTaskSteps =>
          \A i \in 1..Len(StorageFiles) :
              HoldsRecords(Document(StorageFiles[i]))
                  => HoldsRecords(Document(StorageFiles[i])')]_vars
====
